---- MODULE Spec2Model ----
(***************************************************************************)
(* EconomyEngine: the protocol treasury / economic state machine.          *)
(*                                                                         *)
(* Every external function of the contract is one action.  A call either   *)
(* applies all of its effects or reverts and leaves the storage untouched; *)
(* the variable last records the call that produced the current state:     *)
(* its name, caller, arguments, whether it succeeded, the values it        *)
(* returned and the events it emitted.                                     *)
(*                                                                         *)
(* Amounts are uint256 in the contract and arithmetic is checked: a        *)
(* subtraction below zero reverts the call.  The wei-scale literals of the *)
(* contract (1e18, 5e13, ...) are reduced to small numbers so that the     *)
(* products stay inside 32-bit integers; the basis-point constants,        *)
(* the subsidy divisor and the two cooldowns keep their values.            *)
(***************************************************************************)
EXTENDS Integers, Sequences, FiniteSets, TLC

\* ---- bounds of the exploration -----------------------------------------
MaxAmount == 2        \* amounts passed to init / inflow / outflow / lock / transfer / rebirth
MaxInflow == 2        \* total of all inflows other than yield
MaxYieldMinted == 5   \* total yield minted
MaxDeaths == 2        \* total deaths
MaxProphecies == 1    \* total prophecy claims
MaxFees == 4          \* total fees collected
MaxTime == 160        \* the clock stops here

Entities == {1, 2, 3}   \* the ids whose storage the model holds
Cults == {1, 2}         \* the ids most specifications call
Callers == {"owner", "stranger"}
Sources == {"raid", "staking", "funding"}
TransferTypes == {"RAID_SPOILS", "DONATION"}
Amounts == 0..MaxAmount

\* ---- constants of the contract -----------------------------------------
owner == "owner"
BPS == 10000
MaxProtocolFeeBps == 500
HarvestCooldown == 60
SubsidyDivisor == 5
ETHER == 4                          \* 1 ether = 1e18 in the contract
WAD == 4                            \* 1e18 in the contract
yieldAccuracyBonus == 4             \* 2e12 in the contract
InitProtocolFeeBps == 100
InitTickBurnRate == 2               \* 5e13
InitDeathCooldown == 300            \* 5 minutes
InitRebirthMinFunding == 2          \* 1e16
InitYieldPerFollower == 2           \* 1e12
InitYieldPerStakedMon == 1          \* 5e11
InitMaxYieldPerHarvest == 5         \* 1e16
InitProphecyRewardPerCorrect == 1   \* 5e14
InitFeeToPoolBps == 4000
InitFeeToYieldBps == 3000
InitFeeToBurnBps == 3000
GenesisTime == 100     \* block.timestamp of the deployment
TimeStep == HarvestCooldown   \* the clock advances by one harvest cooldown

VARIABLES
    treasuries,
    protocolFeeBps, tickBurnRate, deathCooldown, rebirthMinFunding,
    totalProtocolFees, totalBurned,
    deathTimestamp, deathCount, totalDeaths,
    raidRevenue, stakingRevenue,
    yieldPerFollower, yieldPerStakedMon, maxYieldPerHarvest,
    lastHarvestTime, totalYieldEarned, totalYieldMinted,
    prophecyRewardPool, prophecyRewardPerCorrect, prophecyAccuracy, totalProphecyRewards,
    feeToPoolBps, feeToYieldBps, feeToBurnBps, undistributedFees, yieldSubsidyPool,
    balanceViewPermissions, lockedBalance,
    now, last

config == <<protocolFeeBps, tickBurnRate, deathCooldown, rebirthMinFunding,
            yieldPerFollower, yieldPerStakedMon, maxYieldPerHarvest,
            prophecyRewardPerCorrect, feeToPoolBps, feeToYieldBps, feeToBurnBps>>
deaths == <<deathTimestamp, deathCount, totalDeaths>>
revenue == <<raidRevenue, stakingRevenue>>
fees == <<totalProtocolFees, undistributedFees>>
pools == <<prophecyRewardPool, yieldSubsidyPool>>
yields == <<lastHarvestTime, totalYieldEarned, totalYieldMinted>>
prophecy == <<prophecyAccuracy, totalProphecyRewards>>
storage == <<treasuries, config, deaths, revenue, fees, pools, yields, prophecy,
             totalBurned, balanceViewPermissions, lockedBalance>>
vars == <<storage, now, last>>

EmptyTreasury ==
    [cultId |-> 0, balance |-> 0, lastUpdated |-> 0, totalInflow |-> 0,
     totalOutflow |-> 0, tickBurnAccumulated |-> 0, alive |-> FALSE]

Call(op, caller, args, ok, ret, events) ==
    [op |-> op, caller |-> caller, args |-> args, ok |-> ok, ret |-> ret, events |-> events]

\* a reverted call that leaves an event in the log
RevertLogged(op, caller, args) ==
    /\ last' = Call(op, caller, args, FALSE, <<>>, << <<"Reverted", op>> >>)
    /\ UNCHANGED <<storage, now>>

\* a reverted call: nothing is written, nothing is emitted
Revert(op, caller, args) ==
    /\ last' = Call(op, caller, args, FALSE, <<>>, <<>>)
    /\ UNCHANGED <<storage, now>>

\* a modifier that lets every caller through
anyCaller(caller) == TRUE

onlyOwner(caller) == caller = owner

\* a modifier that admits every entity with a record, dead or alive
cultExists(cultId) == treasuries[cultId].lastUpdated > 0

cultAlive(cultId) == treasuries[cultId].alive

RECURSIVE SumOver(_, _)
SumOver(f, S) ==
    IF S = {} THEN 0
    ELSE LET c == CHOOSE x \in S : TRUE IN f[c] + SumOver(f, S \ {c})

\* The lifetime counters of the contract grow without limit; the calls
\* explored keep them inside the bounds.
InBounds ==
    /\ SumOver([c \in Cults |-> treasuries[c].totalInflow], Cults) - totalYieldMinted
          <= MaxInflow
    /\ totalYieldMinted <= MaxYieldMinted
    /\ totalDeaths <= MaxDeaths
    /\ SumOver(prophecyAccuracy, Cults) <= MaxProphecies
    /\ totalProtocolFees <= MaxFees
    /\ now <= MaxTime

Init ==
    /\ treasuries = [c \in Entities |-> EmptyTreasury]
    /\ protocolFeeBps = InitProtocolFeeBps
    /\ tickBurnRate = InitTickBurnRate
    /\ deathCooldown = InitDeathCooldown
    /\ rebirthMinFunding = InitRebirthMinFunding
    /\ totalProtocolFees = 0
    /\ totalBurned = 0
    /\ deathTimestamp = [c \in Entities |-> 0]
    /\ deathCount = [c \in Entities |-> 0]
    /\ totalDeaths = 0
    /\ raidRevenue = [c \in Entities |-> 0]
    /\ stakingRevenue = [c \in Entities |-> 0]
    /\ yieldPerFollower = InitYieldPerFollower
    /\ yieldPerStakedMon = InitYieldPerStakedMon
    /\ maxYieldPerHarvest = InitMaxYieldPerHarvest
    /\ lastHarvestTime = [c \in Entities |-> 0]
    /\ totalYieldEarned = [c \in Entities |-> 0]
    /\ totalYieldMinted = 0
    /\ prophecyRewardPool = 0
    /\ prophecyRewardPerCorrect = InitProphecyRewardPerCorrect
    /\ prophecyAccuracy = [c \in Entities |-> 0]
    /\ totalProphecyRewards = 0
    /\ feeToPoolBps = InitFeeToPoolBps
    /\ feeToYieldBps = InitFeeToYieldBps
    /\ feeToBurnBps = InitFeeToBurnBps
    /\ undistributedFees = 0
    /\ yieldSubsidyPool = 0
    /\ balanceViewPermissions = [c \in Entities |-> [v \in Entities |-> FALSE]]
    /\ lockedBalance = [c \in Entities |-> 0]
    /\ now = GenesisTime
    /\ last = Call("constructor", owner, <<>>, TRUE, <<>>, <<>>)

\* ---- treasury initialization -------------------------------------------
\* an initialisation test that looks at the alive flag only
notAlive(cultId) == ~treasuries[cultId].alive

\* the test of initTreasury: no record has been written for the id
notInitialized(cultId) == treasuries[cultId].lastUpdated = 0

initTreasury(caller, cultId, initialBalance) ==
    IF ~onlyOwner(caller) \/ ~notInitialized(cultId)
    THEN Revert("initTreasury", caller, <<cultId, initialBalance>>)
    ELSE
      /\ treasuries' = [treasuries EXCEPT ![cultId] =
            [cultId |-> cultId, balance |-> initialBalance, lastUpdated |-> now,
             totalInflow |-> initialBalance, totalOutflow |-> 0,
             tickBurnAccumulated |-> 0, alive |-> TRUE]]
      /\ last' = Call("initTreasury", caller, <<cultId, initialBalance>>, TRUE, <<>>,
                      << <<"TreasuryInitialized", cultId, initialBalance>> >>)
      /\ UNCHANGED <<config, deaths, revenue, fees, pools, yields, prophecy,
                     totalBurned, balanceViewPermissions, lockedBalance, now>>

\* ---- protocol fee collection -------------------------------------------
\* a fee that rounds up
feeRoundedUp(amount) == (amount * protocolFeeBps + BPS - 1) \div BPS

\* the fee of collectFee
feeOf(amount) == (amount * protocolFeeBps) \div BPS

\* a collection that takes the fee out of the entity's balance
collectFeeDeducting(caller, cultId, amount) ==
    IF ~onlyOwner(caller)
    THEN Revert("collectFee", caller, <<cultId, amount>>)
    ELSE
      LET fee == feeOf(amount)
          netAmount == amount - fee
      IN
      /\ treasuries' = [treasuries EXCEPT ![cultId].balance = @ - fee]
      /\ totalProtocolFees' = totalProtocolFees + fee
      /\ undistributedFees' = undistributedFees + fee
      /\ last' = Call("collectFee", caller, <<cultId, amount>>, TRUE, <<fee, netAmount>>,
                      << <<"ProtocolFeeCollected", cultId, fee, totalProtocolFees + fee>> >>)
      /\ UNCHANGED <<config, deaths, revenue, pools, yields, prophecy,
                     totalBurned, balanceViewPermissions, lockedBalance, now>>

collectFee(caller, cultId, amount) ==
    IF ~onlyOwner(caller)
    THEN Revert("collectFee", caller, <<cultId, amount>>)
    ELSE
      LET fee == feeOf(amount)
          netAmount == amount - fee
      IN
      /\ totalProtocolFees' = totalProtocolFees + fee
      /\ undistributedFees' = undistributedFees + fee
      /\ last' = Call("collectFee", caller, <<cultId, amount>>, TRUE, <<fee, netAmount>>,
                      << <<"ProtocolFeeCollected", cultId, fee, totalProtocolFees + fee>> >>)
      /\ UNCHANGED <<treasuries, config, deaths, revenue, pools, yields, prophecy,
                     totalBurned, balanceViewPermissions, lockedBalance, now>>

\* ---- death bookkeeping ---------------------------------------------------
\* a death time that is recorded at the first death only
stampFirstDeath(cultId) ==
    IF deathTimestamp[cultId] = 0
    THEN [deathTimestamp EXCEPT ![cultId] = now] ELSE deathTimestamp

\* deathTimestamp after the death of cultId
stampDeath(cultId) == [deathTimestamp EXCEPT ![cultId] = now]

\* a death that is counted for every entity
countDeathOfAll(cultId) == [c \in Entities |-> deathCount[c] + 1]

\* deathCount after the death of cultId
countDeath(cultId) == [deathCount EXCEPT ![cultId] = @ + 1]

\* ---- tick burn ----------------------------------------------------------
\* a death-spiral test that fires one unit above the rate
depletedEarly(t) == t.balance <= tickBurnRate + 1

\* a death-spiral test that lets a balance equal to the rate survive
depletedStrictly(t) == t.balance < tickBurnRate

\* the death-spiral test of applyTickBurn
depleted(t) == t.balance <= tickBurnRate

\* a tick that is charged once only: later ticks burn nothing
tickChargedOnce == IF totalBurned > 0 THEN 0 ELSE tickBurnRate

\* the amount burned by a tick that does not kill
tickBurned == tickBurnRate

applyTickBurn(caller, cultId) ==
    IF ~onlyOwner(caller) \/ ~cultAlive(cultId)
    THEN Revert("applyTickBurn", caller, <<cultId>>)
    ELSE
      LET t == treasuries[cultId] IN
      IF depleted(t)
      THEN \* death spiral: treasury depleted
        LET burned == t.balance IN
        /\ treasuries' = [treasuries EXCEPT ![cultId] =
              [t EXCEPT !.balance = 0,
                        !.tickBurnAccumulated = @ + burned,
                        !.totalOutflow = @ + burned,
                        !.alive = FALSE,
                        !.lastUpdated = now]]
        /\ deathTimestamp' = stampDeath(cultId)
        /\ deathCount' = countDeath(cultId)
        /\ totalDeaths' = totalDeaths + 1
        /\ totalBurned' = totalBurned + burned
        /\ last' = Call("applyTickBurn", caller, <<cultId>>, TRUE, <<burned, TRUE>>,
                        << <<"TickBurnApplied", cultId, burned, 0>>,
                           <<"CultDied", cultId, now, deathCount[cultId] + 1>> >>)
        /\ UNCHANGED <<config, revenue, fees, pools, yields, prophecy,
                       balanceViewPermissions, lockedBalance, now>>
      ELSE
        LET burned == tickBurned IN
        /\ treasuries' = [treasuries EXCEPT ![cultId] =
              [t EXCEPT !.balance = @ - burned,
                        !.tickBurnAccumulated = @ + burned,
                        !.totalOutflow = @ + burned,
                        !.lastUpdated = now]]
        /\ totalBurned' = totalBurned + burned
        /\ last' = Call("applyTickBurn", caller, <<cultId>>, TRUE, <<burned, FALSE>>,
                        << <<"TickBurnApplied", cultId, burned, t.balance - burned>> >>)
        /\ UNCHANGED <<config, deaths, revenue, fees, pools, yields, prophecy,
                       balanceViewPermissions, lockedBalance, now>>

\* ---- inflow / outflow ---------------------------------------------------
recordInflow(caller, cultId, amount, source) ==
    IF ~onlyOwner(caller) \/ ~cultAlive(cultId)
    THEN Revert("recordInflow", caller, <<cultId, amount, source>>)
    ELSE
      /\ treasuries' = [treasuries EXCEPT ![cultId] =
            [@ EXCEPT !.balance = @ + amount,
                      !.totalInflow = @ + amount,
                      !.lastUpdated = now]]
      /\ raidRevenue' = IF source = "raid"
                        THEN [raidRevenue EXCEPT ![cultId] = @ + amount]
                        ELSE raidRevenue
      /\ stakingRevenue' = IF source # "raid" /\ source = "staking"
                           THEN [stakingRevenue EXCEPT ![cultId] = @ + amount]
                           ELSE stakingRevenue
      /\ last' = Call("recordInflow", caller, <<cultId, amount, source>>, TRUE, <<>>,
                      << <<"InflowRecorded", cultId, amount, source>> >>)
      /\ UNCHANGED <<config, deaths, fees, pools, yields, prophecy,
                     totalBurned, balanceViewPermissions, lockedBalance, now>>

\* a sufficiency test that refuses to spend the whole balance
sufficientStrictly(t, amount) == t.balance > amount

\* the sufficiency test of recordOutflow
sufficient(t, amount) == t.balance >= amount

recordOutflow(caller, cultId, amount, reason) ==
    IF ~onlyOwner(caller) \/ ~cultAlive(cultId) \/ ~sufficient(treasuries[cultId], amount)
    THEN Revert("recordOutflow", caller, <<cultId, amount, reason>>)
    ELSE
      LET t == treasuries[cultId]
          died == t.balance - amount = 0
      IN
      /\ treasuries' = [treasuries EXCEPT ![cultId] =
            [t EXCEPT !.balance = @ - amount,
                      !.totalOutflow = @ + amount,
                      !.lastUpdated = now,
                      !.alive = IF died THEN FALSE ELSE @]]
      /\ deathTimestamp' = IF died THEN stampDeath(cultId)
                           ELSE deathTimestamp
      /\ deathCount' = IF died THEN countDeath(cultId) ELSE deathCount
      /\ totalDeaths' = IF died THEN totalDeaths + 1 ELSE totalDeaths
      /\ last' = Call("recordOutflow", caller, <<cultId, amount, reason>>, TRUE, <<>>,
                      IF died
                      THEN << <<"CultDied", cultId, now, deathCount[cultId] + 1>>,
                              <<"OutflowRecorded", cultId, amount, reason>> >>
                      ELSE << <<"OutflowRecorded", cultId, amount, reason>> >>)
      /\ UNCHANGED <<config, revenue, fees, pools, yields, prophecy,
                     totalBurned, balanceViewPermissions, lockedBalance, now>>

\* ---- rebirth ------------------------------------------------------------
\* the requires of rebirth without the cooldown
rebirthAllowedAtOnce(cultId, newFunding) ==
    /\ ~treasuries[cultId].alive
    /\ deathTimestamp[cultId] > 0
    /\ newFunding >= rebirthMinFunding

\* the four requires of rebirth
rebirthAllowed(cultId, newFunding) ==
    /\ ~treasuries[cultId].alive
    /\ deathTimestamp[cultId] > 0
    /\ now >= deathTimestamp[cultId] + deathCooldown
    /\ newFunding >= rebirthMinFunding

\* rebirth that restores the balance without recording the funding as inflow
rebornUnrecorded(t, newFunding) ==
    [t EXCEPT !.balance = newFunding,
              !.alive = TRUE,
              !.lastUpdated = now]

\* rebirth that starts the record afresh
rebornAfresh(t, newFunding) ==
    [EmptyTreasury EXCEPT !.balance = newFunding,
                          !.totalInflow = newFunding,
                          !.alive = TRUE,
                          !.lastUpdated = now]

\* the treasury record rebirth writes
reborn(t, newFunding) ==
    [t EXCEPT !.balance = newFunding,
              !.totalInflow = @ + newFunding,
              !.alive = TRUE,
              !.lastUpdated = now]

rebirth(caller, cultId, newFunding) ==
    IF ~onlyOwner(caller) \/ ~rebirthAllowed(cultId, newFunding)
    THEN Revert("rebirth", caller, <<cultId, newFunding>>)
    ELSE
      /\ treasuries' = [treasuries EXCEPT ![cultId] = reborn(@, newFunding)]
      /\ last' = Call("rebirth", caller, <<cultId, newFunding>>, TRUE, <<>>,
                      << <<"CultReborn", cultId, newFunding, now>> >>)
      /\ UNCHANGED <<config, deaths, revenue, fees, pools, yields, prophecy,
                     totalBurned, balanceViewPermissions, lockedBalance, now>>

\* ---- health analytics (views) --------------------------------------------
MaxUint == -1   \* stands for type(uint256).max, which no amount of the model reaches

estimateRunway(cultId) ==
    LET t == treasuries[cultId] IN
    IF ~t.alive \/ tickBurnRate = 0 THEN MaxUint
    ELSE t.balance \div tickBurnRate

\* a rebirth test that does not wait for the cooldown
canRebirthAtOnce(cultId) ==
    IF treasuries[cultId].alive THEN FALSE
    ELSE deathTimestamp[cultId] # 0

canRebirth(cultId) ==
    IF treasuries[cultId].alive THEN FALSE
    ELSE IF deathTimestamp[cultId] = 0 THEN FALSE
    ELSE now >= deathTimestamp[cultId] + deathCooldown

\* ---- admin --------------------------------------------------------------
\* a fee rate test that admits any rate up to 100%
feeBpsBelowWhole(newBps) == newBps <= BPS

\* the fee rate test of setProtocolFeeBps
feeBpsAllowed(newBps) == newBps <= MaxProtocolFeeBps

setProtocolFeeBps(caller, newBps) ==
    IF ~onlyOwner(caller) \/ ~feeBpsAllowed(newBps)
    THEN Revert("setProtocolFeeBps", caller, <<newBps>>)
    ELSE
      /\ protocolFeeBps' = newBps
      /\ last' = Call("setProtocolFeeBps", caller, <<newBps>>, TRUE, <<>>,
                      << <<"ProtocolFeeUpdated", protocolFeeBps, newBps>> >>)
      /\ UNCHANGED <<treasuries, tickBurnRate, deathCooldown, rebirthMinFunding,
                     yieldPerFollower, yieldPerStakedMon, maxYieldPerHarvest,
                     prophecyRewardPerCorrect, feeToPoolBps, feeToYieldBps, feeToBurnBps,
                     deaths, revenue, fees, pools, yields, prophecy,
                     totalBurned, balanceViewPermissions, lockedBalance, now>>

setTickBurnRate(caller, newRate) ==
    IF ~onlyOwner(caller)
    THEN Revert("setTickBurnRate", caller, <<newRate>>)
    ELSE
      /\ tickBurnRate' = newRate
      /\ last' = Call("setTickBurnRate", caller, <<newRate>>, TRUE, <<>>,
                      << <<"TickBurnRateUpdated", tickBurnRate, newRate>> >>)
      /\ UNCHANGED <<treasuries, protocolFeeBps, deathCooldown, rebirthMinFunding,
                     yieldPerFollower, yieldPerStakedMon, maxYieldPerHarvest,
                     prophecyRewardPerCorrect, feeToPoolBps, feeToYieldBps, feeToBurnBps,
                     deaths, revenue, fees, pools, yields, prophecy,
                     totalBurned, balanceViewPermissions, lockedBalance, now>>

setDeathCooldown(caller, newCooldown) ==
    IF ~onlyOwner(caller)
    THEN Revert("setDeathCooldown", caller, <<newCooldown>>)
    ELSE
      /\ deathCooldown' = newCooldown
      /\ last' = Call("setDeathCooldown", caller, <<newCooldown>>, TRUE, <<>>, <<>>)
      /\ UNCHANGED <<treasuries, protocolFeeBps, tickBurnRate, rebirthMinFunding,
                     yieldPerFollower, yieldPerStakedMon, maxYieldPerHarvest,
                     prophecyRewardPerCorrect, feeToPoolBps, feeToYieldBps, feeToBurnBps,
                     deaths, revenue, fees, pools, yields, prophecy,
                     totalBurned, balanceViewPermissions, lockedBalance, now>>

setRebirthMinFunding(caller, newMin) ==
    IF ~onlyOwner(caller)
    THEN Revert("setRebirthMinFunding", caller, <<newMin>>)
    ELSE
      /\ rebirthMinFunding' = newMin
      /\ last' = Call("setRebirthMinFunding", caller, <<newMin>>, TRUE, <<>>, <<>>)
      /\ UNCHANGED <<treasuries, protocolFeeBps, tickBurnRate, deathCooldown,
                     yieldPerFollower, yieldPerStakedMon, maxYieldPerHarvest,
                     prophecyRewardPerCorrect, feeToPoolBps, feeToYieldBps, feeToBurnBps,
                     deaths, revenue, fees, pools, yields, prophecy,
                     totalBurned, balanceViewPermissions, lockedBalance, now>>

\* ---- selective balance visibility ---------------------------------------
\* a grant that works in both directions
grantMutualView(caller, cultId, viewerCultId) ==
    IF ~onlyOwner(caller) \/ ~(cultId # viewerCultId)
    THEN Revert("grantBalanceView", caller, <<cultId, viewerCultId>>)
    ELSE
      /\ balanceViewPermissions' =
            [balanceViewPermissions EXCEPT ![cultId][viewerCultId] = TRUE,
                                           ![viewerCultId][cultId] = TRUE]
      /\ last' = Call("grantBalanceView", caller, <<cultId, viewerCultId>>, TRUE, <<>>,
                      << <<"BalanceViewGranted", cultId, viewerCultId>> >>)
      /\ UNCHANGED <<treasuries, config, deaths, revenue, fees, pools, yields, prophecy,
                     totalBurned, lockedBalance, now>>

grantBalanceView(caller, cultId, viewerCultId) ==
    IF ~onlyOwner(caller) \/ ~(cultId # viewerCultId)
    THEN Revert("grantBalanceView", caller, <<cultId, viewerCultId>>)
    ELSE
      /\ balanceViewPermissions' =
            [balanceViewPermissions EXCEPT ![cultId][viewerCultId] = TRUE]
      /\ last' = Call("grantBalanceView", caller, <<cultId, viewerCultId>>, TRUE, <<>>,
                      << <<"BalanceViewGranted", cultId, viewerCultId>> >>)
      /\ UNCHANGED <<treasuries, config, deaths, revenue, fees, pools, yields, prophecy,
                     totalBurned, lockedBalance, now>>

revokeBalanceView(caller, cultId, viewerCultId) ==
    IF ~onlyOwner(caller)
    THEN Revert("revokeBalanceView", caller, <<cultId, viewerCultId>>)
    ELSE
      /\ balanceViewPermissions' =
            [balanceViewPermissions EXCEPT ![cultId][viewerCultId] = FALSE]
      /\ last' = Call("revokeBalanceView", caller, <<cultId, viewerCultId>>, TRUE, <<>>,
                      << <<"BalanceViewRevoked", cultId, viewerCultId>> >>)
      /\ UNCHANGED <<treasuries, config, deaths, revenue, fees, pools, yields, prophecy,
                     totalBurned, lockedBalance, now>>

canViewBalance(cultId, viewerCultId) == balanceViewPermissions[cultId][viewerCultId]

\* a view that denies but still discloses the balance
getVisibleBalanceLeaking(cultId, viewerCultId) ==
    <<treasuries[cultId].balance, balanceViewPermissions[cultId][viewerCultId]>>

getVisibleBalance(cultId, viewerCultId) ==
    IF balanceViewPermissions[cultId][viewerCultId]
    THEN <<treasuries[cultId].balance, TRUE>>
    ELSE <<0, FALSE>>

\* ---- fund locking -------------------------------------------------------
\* a - b in uint256: the call reverts when b > a
Underflows(a, b) == b > a

\* an available amount that forgets the funds already locked
availableIgnoringLocks(cultId) == treasuries[cultId].balance

\* available = balance - lockedBalance, as lockFunds and transferFunds compute it
available(cultId) == treasuries[cultId].balance - lockedBalance[cultId]

lockFunds(caller, cultId, amount, reason) ==
    IF \/ ~onlyOwner(caller)
       \/ ~cultAlive(cultId)
       \/ Underflows(treasuries[cultId].balance, lockedBalance[cultId])
       \/ ~(amount <= available(cultId))
    THEN Revert("lockFunds", caller, <<cultId, amount, reason>>)
    ELSE
      /\ lockedBalance' = [lockedBalance EXCEPT ![cultId] = @ + amount]
      /\ last' = Call("lockFunds", caller, <<cultId, amount, reason>>, TRUE, <<>>,
                      << <<"FundsLocked", cultId, amount, reason>> >>)
      /\ UNCHANGED <<treasuries, config, deaths, revenue, fees, pools, yields, prophecy,
                     totalBurned, balanceViewPermissions, now>>

releaseFunds(caller, cultId, amount) ==
    IF ~onlyOwner(caller) \/ ~(lockedBalance[cultId] >= amount)
    THEN Revert("releaseFunds", caller, <<cultId, amount>>)
    ELSE
      /\ lockedBalance' = [lockedBalance EXCEPT ![cultId] = @ - amount]
      /\ last' = Call("releaseFunds", caller, <<cultId, amount>>, TRUE, <<>>,
                      << <<"FundsReleased", cultId, amount>> >>)
      /\ UNCHANGED <<treasuries, config, deaths, revenue, fees, pools, yields, prophecy,
                     totalBurned, balanceViewPermissions, now>>

\* the view reverts (ok = FALSE) when the subtraction underflows
getAvailableBalance(cultId) ==
    IF ~treasuries[cultId].alive THEN [ok |-> TRUE, value |-> 0]
    ELSE IF Underflows(treasuries[cultId].balance, lockedBalance[cultId])
         THEN [ok |-> FALSE, value |-> 0]
         ELSE [ok |-> TRUE, value |-> treasuries[cultId].balance - lockedBalance[cultId]]

\* ---- inter-cult transfers ------------------------------------------------
\* a death test of the source that never fires
sourceSurvives(balance) == FALSE

\* the death test of transferFunds on the balance left in the source
sourceDepleted(balance) == balance = 0

transferFunds(caller, fromCultId, toCultId, amount, transferType) ==
    IF \/ ~onlyOwner(caller)
       \/ ~(fromCultId # toCultId)
       \/ ~treasuries[fromCultId].alive
       \/ ~treasuries[toCultId].alive
       \/ Underflows(treasuries[fromCultId].balance, lockedBalance[fromCultId])
       \/ ~(amount <= available(fromCultId))
    THEN Revert("transferFunds", caller, <<fromCultId, toCultId, amount, transferType>>)
    ELSE
      LET from == treasuries[fromCultId]
          to == treasuries[toCultId]
          died == sourceDepleted(from.balance - amount)
      IN
      /\ treasuries' = [treasuries EXCEPT
            ![fromCultId] = [from EXCEPT !.balance = @ - amount,
                                         !.totalOutflow = @ + amount,
                                         !.lastUpdated = now,
                                         !.alive = IF died THEN FALSE ELSE @],
            ![toCultId] = [to EXCEPT !.balance = @ + amount,
                                     !.totalInflow = @ + amount,
                                     !.lastUpdated = now]]
      /\ deathTimestamp' = IF died THEN stampDeath(fromCultId)
                           ELSE deathTimestamp
      /\ deathCount' = IF died THEN countDeath(fromCultId)
                       ELSE deathCount
      /\ totalDeaths' = IF died THEN totalDeaths + 1 ELSE totalDeaths
      /\ last' = Call("transferFunds", caller,
                      <<fromCultId, toCultId, amount, transferType>>, TRUE, <<>>,
                      (IF died
                       THEN << <<"CultDied", fromCultId, now, deathCount[fromCultId] + 1>> >>
                       ELSE <<>>)
                      \o << <<"InterCultTransfer", fromCultId, toCultId, amount,
                              transferType, now>> >>)
      /\ UNCHANGED <<config, revenue, fees, pools, yields, prophecy,
                     totalBurned, balanceViewPermissions, lockedBalance, now>>

\* ---- Babylonian sqrt ------------------------------------------------------
RECURSIVE sqrtLoop(_, _, _)
sqrtLoop(x, y, z) ==
    IF z < y THEN sqrtLoop(x, z, (x \div z + z) \div 2) ELSE y

\* a square root that stops after the first step of the iteration
_sqrtSingleStep(x) ==
    IF x = 0 THEN 0 ELSE LET z == (x + 1) \div 2 IN IF z < x THEN z ELSE x

_sqrt(x) ==
    IF x = 0 THEN 0 ELSE sqrtLoop(x, x, (x + 1) \div 2)

\* type(uint256).max, at a width of 8 bits
MaxSqrtInput == 255

\* _sqrt applied to an unsigned integer x of that width: x + 1 is a checked
\* addition, which reverts when it overflows
callSqrt(x) ==
    IF x # 0 /\ x + 1 > MaxSqrtInput
    THEN Revert("_sqrt", owner, <<x>>)
    ELSE /\ last' = Call("_sqrt", owner, <<x>>, TRUE, <<_sqrt(x)>>, <<>>)
         /\ UNCHANGED <<storage, now>>

\* ---- yield engine --------------------------------------------------------
\* a raw yield that takes the remainder of the stake division
rawYieldRemainder(followerCount, totalStaked, correctProphecies) ==
    LET followerYield == followerCount * yieldPerFollower
        stakeYield == (totalStaked * yieldPerStakedMon) % ETHER
        prophecyYield == correctProphecies * yieldAccuracyBonus
    IN followerYield + stakeYield + prophecyYield

rawYield(followerCount, totalStaked, correctProphecies) ==
    LET followerYield == followerCount * yieldPerFollower
        stakeYield == (totalStaked * yieldPerStakedMon) \div ETHER
        prophecyYield == correctProphecies * yieldAccuracyBonus
    IN followerYield + stakeYield + prophecyYield

\* yieldAmount after the diminishing-returns step
baseYield(raw) == IF raw > 0 THEN _sqrt(raw * WAD) ELSE 0

subsidyApplies(yieldAmount) == yieldSubsidyPool > 0 /\ yieldAmount > 0

\* a bonus of a fifth of the base yield, whatever the pool holds
subsidyUncapped(yieldAmount) ==
    IF ~subsidyApplies(yieldAmount) THEN 0 ELSE yieldAmount \div SubsidyDivisor

\* the bonus drawn from the subsidy pool for a base yield
subsidyFor(yieldAmount) ==
    IF ~subsidyApplies(yieldAmount) THEN 0
    ELSE IF yieldAmount \div SubsidyDivisor > yieldSubsidyPool
         THEN yieldSubsidyPool
         ELSE yieldAmount \div SubsidyDivisor

\* yieldAmount before the per-harvest cap
preCapYield(followerCount, totalStaked, correctProphecies) ==
    LET base == baseYield(rawYield(followerCount, totalStaked, correctProphecies))
    IN base + subsidyFor(base)

\* a harvest without the per-harvest cap
uncappedYield(yieldAmount) == yieldAmount

capYield(yieldAmount) ==
    IF yieldAmount > maxYieldPerHarvest THEN maxYieldPerHarvest ELSE yieldAmount

\* a harvest time that is recorded only when something was harvested
lastHarvestTimeIfYield(cultId, yieldAmount) ==
    IF yieldAmount > 0 THEN now ELSE lastHarvestTime[cultId]

\* the harvest time recorded at the end of harvestYield, whatever the yield
newLastHarvestTime(cultId, yieldAmount) == now

harvestYield(caller, cultId, followerCount, totalStaked, correctProphecies) ==
    IF \/ ~onlyOwner(caller)
       \/ ~cultAlive(cultId)
       \/ ~(now >= lastHarvestTime[cultId] + HarvestCooldown)
    THEN Revert("harvestYield", caller,
                <<cultId, followerCount, totalStaked, correctProphecies>>)
    ELSE
      LET raw == rawYield(followerCount, totalStaked, correctProphecies)
          base == baseYield(raw)
          subsidy == subsidyFor(base)
          yieldAmount == capYield(preCapYield(followerCount, totalStaked, correctProphecies))
      IN
      /\ yieldSubsidyPool' = yieldSubsidyPool - subsidy
      /\ treasuries' = IF yieldAmount > 0
                       THEN [treasuries EXCEPT ![cultId] =
                               [@ EXCEPT !.balance = @ + yieldAmount,
                                         !.totalInflow = @ + yieldAmount,
                                         !.lastUpdated = now]]
                       ELSE treasuries
      /\ totalYieldEarned' = IF yieldAmount > 0
                             THEN [totalYieldEarned EXCEPT ![cultId] = @ + yieldAmount]
                             ELSE totalYieldEarned
      /\ totalYieldMinted' = IF yieldAmount > 0 THEN totalYieldMinted + yieldAmount
                             ELSE totalYieldMinted
      /\ lastHarvestTime' = [lastHarvestTime EXCEPT
                                ![cultId] = newLastHarvestTime(cultId, yieldAmount)]
      /\ last' = Call("harvestYield", caller,
                      <<cultId, followerCount, totalStaked, correctProphecies>>, TRUE,
                      <<yieldAmount>>,
                      (IF subsidyApplies(base)
                       THEN << <<"YieldSubsidyApplied", cultId, subsidy>> >> ELSE <<>>)
                      \o << <<"YieldHarvested", cultId, yieldAmount, raw>> >>)
      /\ UNCHANGED <<config, deaths, revenue, fees, prophecyRewardPool, prophecy,
                     totalBurned, balanceViewPermissions, lockedBalance, now>>

\* ---- prophecy reward pool ------------------------------------------------
\* a reward that is not capped to the pool
rewardUncapped == prophecyRewardPerCorrect

\* the reward of claimProphecyReward, capped to the pool
rewardCapped ==
    IF prophecyRewardPerCorrect > prophecyRewardPool
    THEN prophecyRewardPool ELSE prophecyRewardPerCorrect

claimProphecyReward(caller, cultId) ==
    IF ~onlyOwner(caller) \/ ~cultAlive(cultId)
    THEN Revert("claimProphecyReward", caller, <<cultId>>)
    ELSE
      LET reward == rewardCapped
      IN
      /\ prophecyAccuracy' = [prophecyAccuracy EXCEPT ![cultId] = @ + 1]
      /\ prophecyRewardPool' = prophecyRewardPool - reward
      /\ treasuries' = IF reward > 0
                       THEN [treasuries EXCEPT ![cultId] =
                               [@ EXCEPT !.balance = @ + reward,
                                         !.totalInflow = @ + reward,
                                         !.lastUpdated = now]]
                       ELSE treasuries
      /\ totalProphecyRewards' = totalProphecyRewards + reward
      /\ last' = Call("claimProphecyReward", caller, <<cultId>>, TRUE, <<reward>>,
                      << <<"ProphecyRewardClaimed", cultId, reward>> >>)
      /\ UNCHANGED <<config, deaths, revenue, fees, yieldSubsidyPool, yields,
                     totalBurned, balanceViewPermissions, lockedBalance, now>>

\* ---- protocol fee recycling ----------------------------------------------
toPoolOf(fees_) == (fees_ * feeToPoolBps) \div BPS
toYieldOf(fees_) == (fees_ * feeToYieldBps) \div BPS
\* a burn share computed from its own basis points, rounding like the others
toBurnRounded(fees_) == (fees_ * feeToBurnBps) \div BPS

toBurnOf(fees_) == fees_ - toPoolOf(fees_) - toYieldOf(fees_)

\* a queue that keeps the fees it has just distributed
queueKept == undistributedFees

\* undistributedFees after a distribution
queueEmptied == 0

distributeProtocolFees(caller) ==
    IF \/ ~onlyOwner(caller)
       \/ ~(undistributedFees > 0)
       \/ Underflows(undistributedFees, toPoolOf(undistributedFees) + toYieldOf(undistributedFees))
    THEN Revert("distributeProtocolFees", caller, <<>>)
    ELSE
      LET toPool == toPoolOf(undistributedFees)
          toYield == toYieldOf(undistributedFees)
          toBurn == toBurnOf(undistributedFees)
      IN
      /\ prophecyRewardPool' = prophecyRewardPool + toPool
      /\ yieldSubsidyPool' = yieldSubsidyPool + toYield
      /\ totalBurned' = totalBurned + toBurn
      /\ undistributedFees' = queueEmptied
      /\ last' = Call("distributeProtocolFees", caller, <<>>, TRUE, <<>>,
                      << <<"ProtocolFeesDistributed", toPool, toYield, toBurn>>,
                         <<"ProphecyPoolFunded", toPool, prophecyRewardPool + toPool>> >>)
      /\ UNCHANGED <<treasuries, config, deaths, revenue, totalProtocolFees, yields,
                     prophecy, balanceViewPermissions, lockedBalance, now>>

\* ---- non-zero-sum admin --------------------------------------------------
setYieldPerFollower(caller, newRate) ==
    IF ~onlyOwner(caller)
    THEN Revert("setYieldPerFollower", caller, <<newRate>>)
    ELSE
      /\ yieldPerFollower' = newRate
      /\ last' = Call("setYieldPerFollower", caller, <<newRate>>, TRUE, <<>>, <<>>)
      /\ UNCHANGED <<treasuries, protocolFeeBps, tickBurnRate, deathCooldown,
                     rebirthMinFunding, yieldPerStakedMon, maxYieldPerHarvest,
                     prophecyRewardPerCorrect, feeToPoolBps, feeToYieldBps, feeToBurnBps,
                     deaths, revenue, fees, pools, yields, prophecy,
                     totalBurned, balanceViewPermissions, lockedBalance, now>>

setYieldPerStakedMon(caller, newRate) ==
    IF ~onlyOwner(caller)
    THEN Revert("setYieldPerStakedMon", caller, <<newRate>>)
    ELSE
      /\ yieldPerStakedMon' = newRate
      /\ last' = Call("setYieldPerStakedMon", caller, <<newRate>>, TRUE, <<>>, <<>>)
      /\ UNCHANGED <<treasuries, protocolFeeBps, tickBurnRate, deathCooldown,
                     rebirthMinFunding, yieldPerFollower, maxYieldPerHarvest,
                     prophecyRewardPerCorrect, feeToPoolBps, feeToYieldBps, feeToBurnBps,
                     deaths, revenue, fees, pools, yields, prophecy,
                     totalBurned, balanceViewPermissions, lockedBalance, now>>

setMaxYieldPerHarvest(caller, newMax) ==
    IF ~onlyOwner(caller)
    THEN Revert("setMaxYieldPerHarvest", caller, <<newMax>>)
    ELSE
      /\ maxYieldPerHarvest' = newMax
      /\ last' = Call("setMaxYieldPerHarvest", caller, <<newMax>>, TRUE, <<>>, <<>>)
      /\ UNCHANGED <<treasuries, protocolFeeBps, tickBurnRate, deathCooldown,
                     rebirthMinFunding, yieldPerFollower, yieldPerStakedMon,
                     prophecyRewardPerCorrect, feeToPoolBps, feeToYieldBps, feeToBurnBps,
                     deaths, revenue, fees, pools, yields, prophecy,
                     totalBurned, balanceViewPermissions, lockedBalance, now>>

setProphecyRewardPerCorrect(caller, newReward) ==
    IF ~onlyOwner(caller)
    THEN Revert("setProphecyRewardPerCorrect", caller, <<newReward>>)
    ELSE
      /\ prophecyRewardPerCorrect' = newReward
      /\ last' = Call("setProphecyRewardPerCorrect", caller, <<newReward>>, TRUE, <<>>, <<>>)
      /\ UNCHANGED <<treasuries, protocolFeeBps, tickBurnRate, deathCooldown,
                     rebirthMinFunding, yieldPerFollower, yieldPerStakedMon,
                     maxYieldPerHarvest, feeToPoolBps, feeToYieldBps, feeToBurnBps,
                     deaths, revenue, fees, pools, yields, prophecy,
                     totalBurned, balanceViewPermissions, lockedBalance, now>>

\* a distribution test that admits shares that leave part of the fees out
sumsToAtMostWhole(poolBps, yieldBps, burnBps) == poolBps + yieldBps + burnBps <= BPS

\* the distribution test of setFeeDistribution
sumsToWhole(poolBps, yieldBps, burnBps) == poolBps + yieldBps + burnBps = BPS

setFeeDistribution(caller, poolBps, yieldBps, burnBps) ==
    IF ~onlyOwner(caller) \/ ~sumsToWhole(poolBps, yieldBps, burnBps)
    THEN Revert("setFeeDistribution", caller, <<poolBps, yieldBps, burnBps>>)
    ELSE
      /\ feeToPoolBps' = poolBps
      /\ feeToYieldBps' = yieldBps
      /\ feeToBurnBps' = burnBps
      /\ last' = Call("setFeeDistribution", caller, <<poolBps, yieldBps, burnBps>>, TRUE,
                      <<>>, <<>>)
      /\ UNCHANGED <<treasuries, protocolFeeBps, tickBurnRate, deathCooldown,
                     rebirthMinFunding, yieldPerFollower, yieldPerStakedMon,
                     maxYieldPerHarvest, prophecyRewardPerCorrect,
                     deaths, revenue, fees, pools, yields, prophecy,
                     totalBurned, balanceViewPermissions, lockedBalance, now>>

\* ---- the clock ------------------------------------------------------------
\* block.timestamp never decreases; between two calls it may stay or advance
advanceTime ==
    /\ now' = now + TimeStep
    /\ last' = Call("advanceTime", owner, <<>>, TRUE, <<>>, <<>>)
    /\ UNCHANGED storage

\* the clock advances by dt
elapse(dt) ==
    /\ now' = now + dt
    /\ last' = Call("elapse", owner, <<dt>>, TRUE, <<>>, <<>>)
    /\ UNCHANGED storage

\* ---- inputs explored -------------------------------------------------------
FeeAmounts == {400}
Reasons == {"raid"}
HarvestInputs == {<<0, 0, 0>>, <<2, 0, 1>>}

\* A call, reverted or not.  A reverted call leaves the storage as it was, so
\* every continuation of it is a continuation of the state before it: calls
\* are explored after successful steps only, and inside the bounds.
Try(A) == last.ok /\ A /\ InBounds'

\* A call that succeeds.
Do(A) == Try(A) /\ last'.ok

\* ---- the treasury ledger and the value that flows through it ---------------
\* Successful calls of the functions that move value: cult 1 with every
\* function, cult 2 as a second treasury to transfer with.
Next ==
    \/ \E c \in Cults, a \in Amounts : Do(initTreasury(owner, c, a))
    \/ \E a \in Amounts : Do(recordInflow(owner, 1, a, "funding"))
    \/ \E a \in Amounts, r \in Reasons : Do(recordOutflow(owner, 1, a, r))
    \/ Do(applyTickBurn(owner, 1))
    \/ \E a \in Amounts : Do(rebirth(owner, 1, a))
    \/ \E f \in Cults, t \in Cults, a \in Amounts :
          Do(transferFunds(owner, f, t, a, "RAID_SPOILS"))
    \/ \E h \in HarvestInputs : Do(harvestYield(owner, 1, h[1], h[2], h[3]))
    \/ Do(claimProphecyReward(owner, 1))
    \/ \E a \in FeeAmounts : Do(collectFee(owner, 1, a))
    \/ Do(distributeProtocolFees(owner))
    \/ Do(setDeathCooldown(owner, 0))

Spec == Init /\ [][Next]_vars

\* ---- conservation ------------------------------------------------------------
\* C1: in every reachable state and for every entity, the balance is the
\* total inflow minus the total outflow.
Conservation ==
    \A c \in Cults :
        treasuries[c].balance = treasuries[c].totalInflow - treasuries[c].totalOutflow

\* a treasury that spent, died and has just been reborn with new funding
ConservationWitness ==
    /\ last.op = "rebirth" /\ last.ok
    /\ treasuries[1].totalOutflow > 0
    /\ treasuries[1].balance > 0
    /\ totalYieldEarned[1] > 0

\* C2: in every reachable state, the balances of all entities plus the
\* prophecy reward pool, the yield subsidy pool and the total burned equal
\* the inflows of all entities minus their outflows plus the yield minted.
GlobalConservation ==
    SumOver([c \in Cults |-> treasuries[c].balance], Cults)
        + prophecyRewardPool + yieldSubsidyPool + totalBurned
    = SumOver([c \in Cults |-> treasuries[c].totalInflow], Cults)
        - SumOver([c \in Cults |-> treasuries[c].totalOutflow], Cults)
        + totalYieldMinted

\* ---- fund locking ------------------------------------------------------------
\* Locks on cult 1 while its balance moves: every call of lockFunds,
\* releaseFunds and transferFunds, reverted or not, from either caller.
LockReasons == {"raid-escrow"}

NextLock ==
    \/ \E c \in Cults, a \in Amounts : Do(initTreasury(owner, c, a))
    \/ \E a \in Amounts, s \in Sources : Do(recordInflow(owner, 1, a, s))
    \/ \E a \in Amounts, r \in Reasons : Do(recordOutflow(owner, 1, a, r))
    \/ Do(applyTickBurn(owner, 1))
    \/ \E a \in Amounts : Do(rebirth(owner, 1, a))
    \/ Do(setDeathCooldown(owner, 0))
    \/ \E who \in Callers, a \in Amounts, r \in LockReasons : Try(lockFunds(who, 1, a, r))
    \/ \E who \in Callers, a \in Amounts : Try(releaseFunds(who, 1, a))
    \/ \E f \in Cults, t \in Cults, a \in Amounts, ty \in TransferTypes :
          Try(transferFunds(owner, f, t, a, ty))

SpecLock == Init /\ [][NextLock]_vars

\* C3: in every reachable state and for every entity, the locked balance
\* does not exceed the balance.
LockInvariant ==
    \A c \in Cults : lockedBalance[c] <= treasuries[c].balance

\* C4: lockFunds(id, amount) on a live entity is rejected whenever
\* amount > balance - lockedBalance; otherwise (called by the owner) it adds
\* exactly amount to lockedBalance[id] and leaves the treasury of the entity,
\* so its balance, totalInflow and totalOutflow, unchanged.
LockFundsEffect ==
    [][\A c \in Cults, a \in Amounts, r \in LockReasons :
         (last'.op = "lockFunds" /\ last'.args = <<c, a, r>> /\ treasuries[c].alive) =>
            IF a > treasuries[c].balance - lockedBalance[c]
            THEN ~last'.ok /\ UNCHANGED storage
            ELSE last'.caller = owner =>
                    /\ last'.ok
                    /\ lockedBalance' = [lockedBalance EXCEPT ![c] = @ + a]
                    /\ treasuries' = treasuries]_vars

\* a second lock on top of an earlier one has just succeeded
LockFundsWitness ==
    /\ last.op = "lockFunds" /\ last.ok /\ last.args[2] > 0
    /\ lockedBalance[1] > last.args[2]

\* ---- death and rebirth -------------------------------------------------------
\* Lives of both cults under a moving clock: every call of applyTickBurn and
\* rebirth, reverted or not, from either caller, with the burn rate, the
\* cooldown and the minimum funding reconfigured.
NextLife ==
    \/ \E c \in Cults, a \in Amounts : Do(initTreasury(owner, c, a))
    \/ \E a \in Amounts : Do(recordInflow(owner, 1, a, "funding"))
    \/ \E a \in Amounts, r \in Reasons : Do(recordOutflow(owner, 1, a, r))
    \/ \E who \in Callers, c \in Cults : Try(applyTickBurn(who, c))
    \/ \E who \in Callers, c \in Cults, a \in Amounts : Try(rebirth(who, c, a))
    \/ Do(setTickBurnRate(owner, 1))
    \/ Do(setDeathCooldown(owner, TimeStep))
    \/ Do(setRebirthMinFunding(owner, 1))
    \/ Do(advanceTime)

SpecLife == Init /\ [][NextLife]_vars

\* C5: applyTickBurn on a live entity whose balance <= tickBurnRate burns the
\* whole balance in that one call: the balance becomes 0, the entity is dead,
\* the call returns (former balance, true); and no balance is ever negative.
DeathSpiral ==
    /\ [][\A c \in Cults :
            (/\ last'.op = "applyTickBurn" /\ last'.args = <<c>> /\ last'.caller = owner
             /\ treasuries[c].alive
             /\ treasuries[c].balance <= tickBurnRate) =>
                /\ last'.ok
                /\ treasuries'[c].balance = 0
                /\ ~treasuries'[c].alive
                /\ last'.ret = <<treasuries[c].balance, TRUE>>]_vars
    /\ [](\A c \in Cults : treasuries[c].balance >= 0)

\* an entity has just died of a burn that took a balance equal to the rate
DeathSpiralWitness ==
    /\ last.op = "applyTickBurn" /\ last.ok
    /\ last.ret = <<tickBurnRate, TRUE>>
    /\ tickBurnRate > 0
    /\ ~treasuries[last.args[1]].alive

\* C6: rebirth(id, newFunding) is rejected and changes nothing when the
\* entity is alive, when it has never died, when now < deathTimestamp[id] +
\* deathCooldown, and when newFunding < rebirthMinFunding.
RebirthGating ==
    [][\A c \in Cults, a \in Amounts :
         (/\ last'.op = "rebirth" /\ last'.args = <<c, a>>
          /\ \/ treasuries[c].alive
             \/ deathTimestamp[c] = 0
             \/ now < deathTimestamp[c] + deathCooldown
             \/ a < rebirthMinFunding) =>
            ~last'.ok /\ UNCHANGED <<storage, now>>]_vars

\* the owner's rebirth of a dead entity, funded well enough, has just been
\* rejected because the cooldown has not passed
RebirthGatingWitness ==
    /\ last.op = "rebirth" /\ ~last.ok /\ last.caller = owner
    /\ ~treasuries[last.args[1]].alive
    /\ deathTimestamp[last.args[1]] > 0
    /\ last.args[2] >= rebirthMinFunding
    /\ now < deathTimestamp[last.args[1]] + deathCooldown

\* ---- yield --------------------------------------------------------------------
\* Harvests of cult 1, reverted or not, with a subsidy pool fed by distributed
\* fees, under several yield rates and caps.
MaxInput == 4
YieldInputs == {<<0, 0, 0>>, <<1, 0, 0>>, <<0, 4, 0>>, <<2, 0, 1>>}

NextYield ==
    \/ Do(initTreasury(owner, 1, 1))
    \/ \E a \in FeeAmounts : Do(collectFee(owner, 1, a))
    \/ Do(distributeProtocolFees(owner))
    \/ \E who \in Callers, h \in YieldInputs : Try(harvestYield(who, 1, h[1], h[2], h[3]))
    \/ Do(setYieldPerFollower(owner, 3))
    \/ Do(setYieldPerStakedMon(owner, 3))
    \/ Do(setMaxYieldPerHarvest(owner, 1))
    \/ Do(advanceTime)

SpecYield == Init /\ [][NextYield]_vars

\* C7: the yieldAmount a successful harvestYield returns, and the amount it
\* credits to the balance of the entity, never exceeds maxYieldPerHarvest,
\* also when a subsidy bonus is added.
YieldCap ==
    [][\A c \in Cults :
         (last'.op = "harvestYield" /\ last'.ok /\ last'.args[1] = c) =>
            /\ last'.ret[1] <= maxYieldPerHarvest
            /\ treasuries'[c].balance - treasuries[c].balance = last'.ret[1]]_vars

\* a harvest whose base yield plus subsidy bonus exceeded the cap has just
\* returned the cap
YieldCapWitness ==
    /\ last.op = "harvestYield" /\ last.ok
    /\ Len(last.events) = 2
    /\ last.events[1][3] > 0
    /\ baseYield(last.events[2][4]) + last.events[1][3] > maxYieldPerHarvest
    /\ baseYield(last.events[2][4]) <= maxYieldPerHarvest
    /\ last.ret[1] = maxYieldPerHarvest

\* C8: in a fixed state (yield rates and subsidy pool) the yield before the
\* cap is non-decreasing in followerCount, in totalStaked and in
\* correctProphecies, the other two inputs held fixed.
YieldMonotone ==
    \A f \in 0..MaxInput, s \in 0..MaxInput, p \in 0..MaxInput :
        /\ preCapYield(f, s, p) <= preCapYield(f + 1, s, p)
        /\ preCapYield(f, s, p) <= preCapYield(f, s + 1, p)
        /\ preCapYield(f, s, p) <= preCapYield(f, s, p + 1)

\* a state with raised rates and a funded subsidy pool, in which one more
\* staked unit raises the yield before the cap
YieldMonotoneWitness ==
    /\ yieldSubsidyPool > 0
    /\ yieldPerStakedMon > InitYieldPerStakedMon
    /\ preCapYield(0, 1, 0) < preCapYield(0, 2, 0)

\* ---- fee recycling -------------------------------------------------------------
\* Fees collected at two rates from both cults and distributed, reverted or
\* not, under several distributions, two of them invalid.
SplitFeeAmounts == {100, 400}
FeeDistributions ==
    {<<3333, 3333, 3334>>, <<0, 10000, 0>>, <<5000, 5000, 5000>>, <<4000, 3000, 2999>>}

NextFees ==
    \/ \E c \in Cults, a \in SplitFeeAmounts : Do(collectFee(owner, c, a))
    \/ \E who \in Callers : Try(distributeProtocolFees(who))
    \/ \E d \in FeeDistributions : Try(setFeeDistribution(owner, d[1], d[2], d[3]))
    \/ Do(setProtocolFeeBps(owner, 50))

SpecFees == Init /\ [][NextFees]_vars

\* C9: a successful distributeProtocolFees splits fees = undistributedFees
\* exactly: prophecyRewardPool grows by fees * feeToPoolBps / 10000,
\* yieldSubsidyPool by fees * feeToYieldBps / 10000, totalBurned by the rest,
\* the three growths add up to fees, and undistributedFees becomes 0.
FeeSplitExact ==
    [][(last'.op = "distributeProtocolFees" /\ last'.ok) =>
          LET fees_ == undistributedFees
              toPool == prophecyRewardPool' - prophecyRewardPool
              toYield == yieldSubsidyPool' - yieldSubsidyPool
              toBurn == totalBurned' - totalBurned
          IN /\ toPool = (fees_ * feeToPoolBps) \div BPS
             /\ toYield = (fees_ * feeToYieldBps) \div BPS
             /\ toBurn >= 0
             /\ toPool + toYield + toBurn = fees_
             /\ undistributedFees' = 0]_vars

\* a distribution under a reconfigured split has just rounded two shares down
FeeSplitExactWitness ==
    /\ last.op = "distributeProtocolFees" /\ last.ok
    /\ feeToPoolBps = 3333
    /\ last.events[1][2] + last.events[1][3] + last.events[1][4] = 4
    /\ last.events[1][4] = 2
    /\ undistributedFees = 0

\* ---- balance visibility -------------------------------------------------------
\* Grants and revocations over every pair, reverted or not, from either
\* caller, while the balance of cult 1 moves.
NextView ==
    \/ \E c \in Cults, a \in Amounts : Do(initTreasury(owner, c, a))
    \/ \E a \in Amounts, s \in Sources : Do(recordInflow(owner, 1, a, s))
    \/ \E a \in Amounts, r \in Reasons : Do(recordOutflow(owner, 1, a, r))
    \/ \E who \in Callers, c \in Cults, v \in Cults : Try(grantBalanceView(who, c, v))
    \/ \E who \in Callers, c \in Cults, v \in Cults : Try(revokeBalanceView(who, c, v))

SpecView == Init /\ [][NextView]_vars

\* C10: getVisibleBalance(ownerId, viewerId) returns (0, false) for every
\* pair without a granted edge - never granted, or granted and later
\* revoked - whatever the balance of the owner, and (balance, true) exactly
\* when the edge is currently granted: no edge is granted at deployment, a
\* successful grantBalanceView grants its edge, a successful
\* revokeBalanceView removes it, and nothing else changes an edge.
VisibilityDefaultDeny ==
    /\ \A c \in Cults, v \in Cults : getVisibleBalance(c, v) = <<0, FALSE>>
    /\ [][\A c \in Cults, v \in Cults :
            LET granted == /\ last'.op = "grantBalanceView" /\ last'.ok
                           /\ last'.args = <<c, v>>
                revoked == /\ last'.op = "revokeBalanceView" /\ last'.ok
                           /\ last'.args = <<c, v>>
                edge == granted \/ (~revoked /\ getVisibleBalance(c, v)[2])
            IN getVisibleBalance(c, v)' =
                  IF edge THEN <<treasuries'[c].balance, TRUE>> ELSE <<0, FALSE>>]_vars

\* the edge from cult 1 to cult 2 has just been revoked while cult 1 holds a
\* balance and the opposite edge stays granted
VisibilityDefaultDenyWitness ==
    /\ last.op = "revokeBalanceView" /\ last.ok /\ last.args = <<1, 2>>
    /\ treasuries[1].balance > 0
    /\ getVisibleBalance(1, 2) = <<0, FALSE>>
    /\ getVisibleBalance(2, 1)[2]

\* ---- access control ------------------------------------------------------------
\* The owner brings the contract into states where calls would succeed; a
\* stranger then calls every mutating function.
stranger == "stranger"

NextAccess ==
    \/ \E c \in Cults, a \in Amounts : Do(initTreasury(owner, c, a))
    \/ Do(recordOutflow(owner, 1, 1, "raid"))
    \/ Do(applyTickBurn(owner, 1))
    \/ Do(collectFee(owner, 1, 400))
    \/ Do(lockFunds(owner, 1, 1, "raid-escrow"))
    \/ Do(grantBalanceView(owner, 1, 2))
    \/ Do(setDeathCooldown(owner, 0))
    \/ \E c \in Cults : Try(initTreasury(stranger, c, 1))
    \/ Try(collectFee(stranger, 1, 400))
    \/ Try(applyTickBurn(stranger, 1))
    \/ Try(recordInflow(stranger, 1, 1, "funding"))
    \/ Try(recordOutflow(stranger, 1, 1, "raid"))
    \/ Try(rebirth(stranger, 1, 2))
    \/ Try(setProtocolFeeBps(stranger, 50))
    \/ Try(setTickBurnRate(stranger, 1))
    \/ Try(setDeathCooldown(stranger, 0))
    \/ Try(setRebirthMinFunding(stranger, 1))
    \/ Try(grantBalanceView(stranger, 2, 1))
    \/ Try(revokeBalanceView(stranger, 1, 2))
    \/ Try(lockFunds(stranger, 1, 1, "raid-escrow"))
    \/ Try(releaseFunds(stranger, 1, 1))
    \/ Try(transferFunds(stranger, 1, 2, 1, "DONATION"))
    \/ Try(harvestYield(stranger, 1, 2, 0, 1))
    \/ Try(claimProphecyReward(stranger, 1))
    \/ Try(distributeProtocolFees(stranger))
    \/ Try(setYieldPerFollower(stranger, 3))
    \/ Try(setYieldPerStakedMon(stranger, 3))
    \/ Try(setMaxYieldPerHarvest(stranger, 1))
    \/ Try(setProphecyRewardPerCorrect(stranger, 2))
    \/ Try(setFeeDistribution(stranger, 3333, 3333, 3334))

SpecAccess == Init /\ [][NextAccess]_vars

\* C11: every mutating operation invoked by a caller other than the owner
\* is rejected and changes no state: no treasury record, per-entity map,
\* global counter, pool, configuration parameter or visibility edge differs.
OnlyOwnerMutates ==
    [][(last'.caller # owner) => (~last'.ok /\ last'.events = <<>> /\ UNCHANGED storage)]_vars

\* a stranger's release of funds that are locked on a dead entity, which the
\* owner could have released, has just been rejected
OnlyOwnerMutatesWitness ==
    /\ last.op = "releaseFunds" /\ last.caller = stranger /\ ~last.ok
    /\ lockedBalance[1] >= last.args[2]
    /\ ~treasuries[1].alive
    /\ treasuries[2].alive
    /\ balanceViewPermissions[1][2]
    /\ undistributedFees > 0

\* ---- dead entities ---------------------------------------------------------------
EntityScopedOps ==
    {"recordInflow", "recordOutflow", "applyTickBurn", "lockFunds", "releaseFunds",
     "harvestYield", "claimProphecyReward"}

\* the call recorded in l targets entity c
Targets(l, c) ==
    \/ l.op \in EntityScopedOps /\ l.args[1] = c
    \/ l.op = "transferFunds" /\ (l.args[1] = c \/ l.args[2] = c)

\* C12: while an entity is dead, every entity-scoped mutating operation other
\* than rebirth that targets it is rejected, and its treasury record,
\* lockedBalance, lastHarvestTime and prophecyAccuracy do not change until
\* its rebirth.
DeadEntityFrozen ==
    [][\A c \in Cults :
         (~treasuries[c].alive /\ deathTimestamp[c] > 0) =>
            /\ Targets(last', c) => ~last'.ok
            /\ (last'.op = "rebirth" /\ last'.args[1] = c)
                \/ /\ treasuries'[c] = treasuries[c]
                   /\ lockedBalance'[c] = lockedBalance[c]
                   /\ lastHarvestTime'[c] = lastHarvestTime[c]
                   /\ prophecyAccuracy'[c] = prophecyAccuracy[c]]_vars

\* ---- rejected calls --------------------------------------------------------------
\* The owner calls every function that can fail, with inputs that pass and
\* inputs that fail each of its requirements.
SumInputs == {<<3333, 3333, 3334>>, <<5000, 5000, 5000>>}

NextReject ==
    \/ \E c \in Cults, a \in {1, 2} : Try(initTreasury(owner, c, a))
    \/ Try(recordInflow(owner, 1, 1, "funding"))
    \/ \E a \in {1, 2} : Try(recordOutflow(owner, 1, a, "raid"))
    \/ Try(applyTickBurn(owner, 1))
    \/ \E a \in {1, 2} : Try(rebirth(owner, 1, a))
    \/ Try(setProtocolFeeBps(owner, MaxProtocolFeeBps + 1))
    \/ Try(grantBalanceView(owner, 1, 1))
    \/ Try(lockFunds(owner, 1, 1, "raid-escrow"))
    \/ Try(releaseFunds(owner, 1, 1))
    \/ \E t \in Cults : Try(transferFunds(owner, 1, t, 1, "DONATION"))
    \/ Try(harvestYield(owner, 1, 1, 0, 0))
    \/ Try(claimProphecyReward(owner, 1))
    \/ Do(collectFee(owner, 1, 400))
    \/ Try(distributeProtocolFees(owner))
    \/ \E d \in SumInputs : Try(setFeeDistribution(owner, d[1], d[2], d[3]))

SpecReject == Init /\ [][NextReject]_vars

HalfStep == 30

NextHarvest ==
    \/ \E c \in Cults : Do(initTreasury(owner, c, 1))
    \/ Do(recordOutflow(owner, 1, 1, "raid"))
    \/ \E c \in Cults, h \in {<<0, 0, 0>>, <<1, 0, 0>>} :
          Try(harvestYield(owner, c, h[1], h[2], h[3]))
    \/ Do(elapse(HalfStep))

SpecHarvest == Init /\ [][NextHarvest]_vars

\* C14: under a non-decreasing clock two successful harvestYield calls for
\* the same entity are at least 60 time units apart, also when the earlier
\* one yielded 0: a successful harvest happens only at now >=
\* lastHarvestTime[id] + 60 and sets lastHarvestTime[id] to now, nothing else
\* changes lastHarvestTime[id], and the clock never goes back.
HarvestSpacing ==
    [][/\ now' >= now
       /\ \A c \in Cults :
            IF last'.op = "harvestYield" /\ last'.ok /\ last'.args[1] = c
            THEN /\ now >= lastHarvestTime[c] + 60
                 /\ lastHarvestTime'[c] = now
            ELSE lastHarvestTime'[c] = lastHarvestTime[c]]_vars

\* half a cooldown after a harvest that yielded nothing, the owner's next
\* harvest of the same live entity has just been rejected
HarvestSpacingWitness ==
    /\ last.op = "harvestYield" /\ ~last.ok /\ last.caller = owner
    /\ treasuries[last.args[1]].alive
    /\ totalYieldEarned[last.args[1]] = 0
    /\ lastHarvestTime[last.args[1]] > 0
    /\ now = lastHarvestTime[last.args[1]] + HalfStep

\* ---- lifecycle -----------------------------------------------------------------------
\* the lifecycle state of an entity
phase(c) ==
    IF treasuries[c].alive THEN "Alive"
    ELSE IF treasuries[c].lastUpdated = 0 THEN "Uninitialized" ELSE "Dead"

\* C15: the lifecycle of every entity follows only these transitions:
\* Uninitialized to Alive by initTreasury; Alive to Dead only by a
\* recordOutflow, applyTickBurn or transferFunds (as source) step that leaves
\* its balance at 0; Dead to Alive only by a successful rebirth.  No step
\* returns an entity to Uninitialized and nothing else changes the alive flag.
Lifecycle ==
    [][\A c \in Cults :
         (phase(c)' # phase(c)) =>
            /\ last'.ok /\ last'.args[1] = c
            /\ \/ /\ phase(c) = "Uninitialized" /\ phase(c)' = "Alive"
                  /\ last'.op = "initTreasury"
               \/ /\ phase(c) = "Alive" /\ phase(c)' = "Dead"
                  /\ last'.op \in {"recordOutflow", "applyTickBurn", "transferFunds"}
                  /\ treasuries'[c].balance = 0
               \/ /\ phase(c) = "Dead" /\ phase(c)' = "Alive"
                  /\ last'.op = "rebirth"]_vars

\* an entity has just died as the source of a transfer of its whole
\* balance, which it had harvested, to a live entity
LifecycleWitness ==
    /\ last.op = "transferFunds" /\ last.ok /\ last.args[1] = 1
    /\ last.args[3] > 0
    /\ totalYieldEarned[1] > 0
    /\ phase(1) = "Dead"
    /\ phase(2) = "Alive"

\* C16: initTreasury(id, initialBalance) succeeds at most once per id: on an
\* id without a record it creates a live record with balance = totalInflow =
\* initialBalance, totalOutflow = 0 and tickBurnAccumulated = 0; on an id
\* that has a record, alive or dead, it is rejected and the record stays.
InitOnce ==
    [][\A c \in Cults, a \in Amounts :
         (last'.op = "initTreasury" /\ last'.caller = owner /\ last'.args = <<c, a>>) =>
            IF treasuries[c] = EmptyTreasury
            THEN /\ last'.ok
                 /\ treasuries'[c] =
                      [cultId |-> c, balance |-> a, lastUpdated |-> now, totalInflow |-> a,
                       totalOutflow |-> 0, tickBurnAccumulated |-> 0, alive |-> TRUE]
            ELSE ~last'.ok /\ treasuries'[c] = treasuries[c]]_vars

\* the owner's initialisation of an entity that has died has just been
\* rejected
InitOnceWitness ==
    /\ last.op = "initTreasury" /\ last.caller = owner /\ ~last.ok
    /\ phase(last.args[1]) = "Dead"
    /\ treasuries[last.args[1]].totalOutflow > 0

\* ---- transfers -----------------------------------------------------------------------
\* C17: transferFunds(fromId, toId, amount) by the owner succeeds only if
\* fromId # toId, both entities are alive and amount <= balance[fromId] -
\* lockedBalance[fromId]; a transfer never moves locked funds: it leaves
\* every lock as it was and the source with at least its locked balance.
TransferGuard ==
    [][\A f \in Cults, t \in Cults, a \in Amounts :
         (/\ last'.op = "transferFunds" /\ last'.ok
          /\ last'.args[1] = f /\ last'.args[2] = t /\ last'.args[3] = a) =>
            /\ last'.caller = owner
            /\ f # t
            /\ treasuries[f].alive /\ treasuries[t].alive
            /\ a <= treasuries[f].balance - lockedBalance[f]
            /\ lockedBalance' = lockedBalance
            /\ treasuries'[f].balance >= lockedBalance'[f]]_vars

\* a transfer between two live entities of an amount the source holds, but
\* not unlocked, has just been rejected
TransferGuardWitness ==
    /\ last.op = "transferFunds" /\ ~last.ok /\ last.caller = owner
    /\ last.args[1] = 1 /\ last.args[2] = 2
    /\ treasuries[1].alive /\ treasuries[2].alive
    /\ lockedBalance[1] <= treasuries[1].balance
    /\ last.args[3] <= treasuries[1].balance
    /\ last.args[3] > treasuries[1].balance - lockedBalance[1]

\* ---- prophecy rewards ------------------------------------------------------------
\* Claims of both cults, reverted or not, from either caller, against a pool
\* that is empty, short or sufficient.
NextProphecy ==
    \/ \E c \in Cults, a \in {0, 1} : Do(initTreasury(owner, c, a))
    \/ Do(recordOutflow(owner, 1, 1, "raid"))
    \/ \E a \in SplitFeeAmounts : Do(collectFee(owner, 1, a))
    \/ Do(distributeProtocolFees(owner))
    \/ Do(setFeeDistribution(owner, BPS, 0, 0))
    \/ Do(setProphecyRewardPerCorrect(owner, 2))
    \/ \E who \in Callers, c \in Cults : Try(claimProphecyReward(who, c))

SpecProphecy == Init /\ [][NextProphecy]_vars

\* C18: claimProphecyReward(id) by the owner on a live entity never fails
\* for a short pool: it pays reward = min(prophecyRewardPerCorrect,
\* prophecyRewardPool), takes reward out of the pool, adds it to the balance
\* and totalInflow of the entity and to totalProphecyRewards, and increments
\* prophecyAccuracy[id] also when reward is 0; the pool is never negative.
ProphecyRewardPaid ==
    /\ [][\A c \in Cults :
            (/\ last'.op = "claimProphecyReward" /\ last'.caller = owner
             /\ last'.args = <<c>> /\ treasuries[c].alive) =>
               LET reward == IF prophecyRewardPerCorrect <= prophecyRewardPool
                             THEN prophecyRewardPerCorrect ELSE prophecyRewardPool
               IN /\ last'.ok
                  /\ last'.ret = <<reward>>
                  /\ prophecyRewardPool' = prophecyRewardPool - reward
                  /\ treasuries'[c].balance = treasuries[c].balance + reward
                  /\ treasuries'[c].totalInflow = treasuries[c].totalInflow + reward
                  /\ totalProphecyRewards' = totalProphecyRewards + reward
                  /\ prophecyAccuracy'[c] = prophecyAccuracy[c] + 1]_vars
    /\ [](prophecyRewardPool >= 0)

\* a claim has just been paid less than the configured reward, all that the
\* pool held
ProphecyRewardPaidWitness ==
    /\ last.op = "claimProphecyReward" /\ last.ok
    /\ last.ret[1] > 0
    /\ last.ret[1] < prophecyRewardPerCorrect
    /\ prophecyRewardPool = 0
    /\ prophecyAccuracy[last.args[1]] = 1

\* ---- audit events ------------------------------------------------------------------
\* C19: every successful call that changes the state, the configuration
\* setters included, appends at least one event to the event log.
AuditEvents ==
    [][(last'.ok /\ storage' # storage) => Len(last'.events) >= 1]_vars

\* ---- tick burn accounting ------------------------------------------------------------
\* C20: applyTickBurn on a live entity with balance > tickBurnRate deducts
\* exactly tickBurnRate and leaves it alive; on both paths tickBurnAccumulated
\* and totalOutflow of the entity and the global totalBurned each grow by
\* exactly the amount returned as burned, and totalDeaths and deathCount
\* change only on the death path.
TickBurnAccounting ==
    [][\A c \in Cults :
         (/\ last'.op = "applyTickBurn" /\ last'.caller = owner /\ last'.args = <<c>>
          /\ treasuries[c].alive) =>
            LET burned == last'.ret[1]
                died == last'.ret[2]
            IN /\ last'.ok
               /\ (treasuries[c].balance > tickBurnRate) =>
                     /\ burned = tickBurnRate
                     /\ treasuries'[c].balance = treasuries[c].balance - tickBurnRate
                     /\ treasuries'[c].alive
                     /\ ~died
               /\ treasuries'[c].tickBurnAccumulated = treasuries[c].tickBurnAccumulated + burned
               /\ treasuries'[c].totalOutflow = treasuries[c].totalOutflow + burned
               /\ totalBurned' = totalBurned + burned
               /\ died = ~treasuries'[c].alive
               /\ IF died
                  THEN totalDeaths' = totalDeaths + 1 /\ deathCount'[c] = deathCount[c] + 1
                  ELSE totalDeaths' = totalDeaths /\ deathCount' = deathCount]_vars

\* a burn has just taken exactly the rate from an entity that stays alive
\* with the rest
TickBurnAccountingWitness ==
    /\ last.op = "applyTickBurn" /\ last.ok
    /\ last.ret = <<tickBurnRate, FALSE>>
    /\ tickBurnRate > 0
    /\ treasuries[last.args[1]].alive
    /\ treasuries[last.args[1]].balance > 0
    /\ totalBurned = tickBurnRate

\* ---- outflows and transfers -------------------------------------------------------
\* Outflows and transfers of both cults, reverted or not, with amounts from 0
\* to more than the balance, under a moving clock and with funded pools. The
\* funds received by the two cults together stay within MaxFlow.
MaxFlow == 4

FlowBounds ==
    /\ SumOver([c \in Cults |-> treasuries[c].totalInflow], Cults) <= MaxFlow
    /\ totalProtocolFees <= MaxFees
    /\ now <= MaxTime

TryFlow(A) == last.ok /\ A /\ FlowBounds'

DoFlow(A) == TryFlow(A) /\ last'.ok

NextFlow ==
    \/ \E c \in Cults, a \in Amounts : DoFlow(initTreasury(owner, c, a))
    \/ \E c \in Cults, a \in Amounts, r \in Reasons : TryFlow(recordOutflow(owner, c, a, r))
    \/ \E f \in Cults, t \in Cults, a \in Amounts, ty \in TransferTypes :
          TryFlow(transferFunds(owner, f, t, a, ty))
    \/ \E a \in FeeAmounts : DoFlow(collectFee(owner, 1, a))
    \/ DoFlow(distributeProtocolFees(owner))
    \/ DoFlow(advanceTime)

SpecFlow == Init /\ [][NextFlow]_vars

\* C21: recordOutflow(id, amount) on a live entity is rejected if amount >
\* balance; otherwise the balance decreases and totalOutflow increases by
\* amount, and the entity becomes dead, with deathTimestamp[id] = now,
\* deathCount[id] + 1 and totalDeaths + 1, exactly when the resulting balance
\* is 0, and stays alive otherwise.
OutflowEffect ==
    [][\A c \in Cults, a \in Amounts :
         (/\ last'.op = "recordOutflow" /\ last'.caller = owner
          /\ last'.args[1] = c /\ last'.args[2] = a
          /\ treasuries[c].alive) =>
            IF a > treasuries[c].balance
            THEN ~last'.ok /\ UNCHANGED storage
            ELSE /\ last'.ok
                 /\ treasuries'[c].balance = treasuries[c].balance - a
                 /\ treasuries'[c].totalOutflow = treasuries[c].totalOutflow + a
                 /\ IF treasuries[c].balance - a = 0
                    THEN /\ ~treasuries'[c].alive
                         /\ deathTimestamp'[c] = now
                         /\ deathCount'[c] = deathCount[c] + 1
                         /\ totalDeaths' = totalDeaths + 1
                    ELSE /\ treasuries'[c].alive
                         /\ UNCHANGED deaths]_vars

\* an outflow of the whole balance, after the clock has moved, has just
\* killed an entity
OutflowEffectWitness ==
    /\ last.op = "recordOutflow" /\ last.ok /\ last.args[2] > 0
    /\ ~treasuries[last.args[1]].alive
    /\ now > GenesisTime
    /\ deathTimestamp[last.args[1]] = now

\* C22: a successful transferFunds(from, to, amount) preserves balance[from] +
\* balance[to], raises totalOutflow[from] and totalInflow[to] by amount, changes
\* no pool and no global counter other than totalDeaths, and kills the source,
\* with the death bookkeeping, exactly when its balance reaches 0; the target
\* is never killed by the transfer.
TransferFrame ==
    [][\A f \in Cults, t \in Cults, a \in Amounts :
         (/\ last'.op = "transferFunds" /\ last'.ok
          /\ last'.args[1] = f /\ last'.args[2] = t /\ last'.args[3] = a) =>
            /\ treasuries'[f].balance + treasuries'[t].balance
                 = treasuries[f].balance + treasuries[t].balance
            /\ treasuries'[f].totalOutflow = treasuries[f].totalOutflow + a
            /\ treasuries'[t].totalInflow = treasuries[t].totalInflow + a
            /\ UNCHANGED <<pools, fees, totalProtocolFees, totalBurned, totalYieldMinted,
                           totalProphecyRewards, revenue, config>>
            /\ treasuries'[t].alive
            /\ UNCHANGED <<deathTimestamp[t], deathCount[t]>>
            /\ IF treasuries'[f].balance = 0
               THEN /\ ~treasuries'[f].alive
                    /\ deathTimestamp'[f] = now
                    /\ deathCount'[f] = deathCount[f] + 1
                    /\ totalDeaths' = totalDeaths + 1
               ELSE /\ treasuries'[f].alive
                    /\ UNCHANGED deaths]_vars

\* a transfer of the whole balance has just killed its source while the pools
\* hold distributed fees
TransferFrameWitness ==
    /\ last.op = "transferFunds" /\ last.ok /\ last.args[3] > 0
    /\ ~treasuries[last.args[1]].alive
    /\ treasuries[last.args[2]].alive
    /\ deathCount[last.args[1]] = 1
    /\ prophecyRewardPool > 0

\* ---- the fee rate -----------------------------------------------------------------
\* Fee collections under every fee rate the owner can try to set: rates inside
\* the cap, the cap itself and rates above it.
FeeRates == {0, 50, MaxProtocolFeeBps, MaxProtocolFeeBps + 1, BPS}

RatedAmounts == {0, 20, 100, 199, 400}

NextFeeRate ==
    \/ \E b \in FeeRates : Try(setProtocolFeeBps(owner, b))
    \/ \E c \in Cults, a \in RatedAmounts : Do(collectFee(owner, c, a))
    \/ Do(distributeProtocolFees(owner))

SpecFeeRate == Init /\ [][NextFeeRate]_vars

\* C23: collectFee(id, amount) returns fee = floor(amount * protocolFeeBps /
\* 10000) and netAmount = amount - fee, so fee + netAmount = amount and fee <=
\* amount, and it adds exactly fee to both totalProtocolFees and
\* undistributedFees.
FeeComputation ==
    [][(last'.op = "collectFee" /\ last'.ok) =>
         LET amount == last'.args[2]
             fee == last'.ret[1]
             netAmount == last'.ret[2]
         IN /\ fee >= 0
            /\ fee * BPS <= amount * protocolFeeBps
            /\ amount * protocolFeeBps < (fee + 1) * BPS
            /\ netAmount = amount - fee
            /\ fee + netAmount = amount
            /\ fee <= amount
            /\ totalProtocolFees' = totalProtocolFees + fee
            /\ undistributedFees' = undistributedFees + fee]_vars

\* a fee that was rounded down has just been collected: 199 at 50 bps is 0.995
FeeComputationWitness ==
    /\ last.op = "collectFee" /\ last.ok
    /\ last.args[2] = 199 /\ protocolFeeBps = 50
    /\ last.ret = <<0, 199>>
    /\ totalProtocolFees > 0

\* C24: collectFee(id, amount) leaves every treasury record, every
\* per-entity map, both pools and totalBurned unchanged; only
\* totalProtocolFees and undistributedFees change.
CollectFeeFrame ==
    [][(last'.op = "collectFee" /\ last'.ok) =>
         UNCHANGED <<treasuries, deaths, revenue, yields, prophecy, pools, totalBurned,
                     balanceViewPermissions, lockedBalance, config, now>>]_vars

\* a fee has just been collected for an entity that holds a balance, while a
\* pool holds distributed fees
CollectFeeFrameWitness ==
    /\ last.op = "collectFee" /\ last.ok /\ last.ret[1] > 0
    /\ treasuries[last.args[1]].balance > 0
    /\ undistributedFees > 0

\* C30: in every reachable state protocolFeeBps <= 500: setProtocolFeeBps
\* with a value above 500 is rejected and leaves protocolFeeBps unchanged.
FeeBpsCap ==
    /\ [](protocolFeeBps <= MaxProtocolFeeBps)
    /\ [][(last'.op = "setProtocolFeeBps" /\ last'.args[1] > MaxProtocolFeeBps) =>
            ~last'.ok /\ UNCHANGED protocolFeeBps]_vars

\* a rate of 501 bps has just been refused while the rate stands at the cap
FeeBpsCapWitness ==
    /\ last.op = "setProtocolFeeBps" /\ ~last.ok
    /\ last.caller = owner
    /\ last.args[1] = MaxProtocolFeeBps + 1
    /\ protocolFeeBps = MaxProtocolFeeBps

\* ---- the yield subsidy ------------------------------------------------------------
\* Harvests against a subsidy pool that is empty, smaller than the bonus and
\* larger than the bonus, under per-harvest caps below and above the yield,
\* one of them below the bonus.
MaxSubsidyMinted == 12

SubsidyBounds ==
    /\ totalYieldMinted <= MaxSubsidyMinted
    /\ totalProtocolFees <= MaxFees
    /\ now <= MaxTime

TrySubsidy(A) == last.ok /\ A /\ SubsidyBounds'

DoSubsidy(A) == TrySubsidy(A) /\ last'.ok

\* raw yields 0, 2, 8 and 28: base yields 0, 2, 5 and 10
SubsidyInputs == {<<0, 0, 0>>, <<1, 0, 0>>, <<0, 0, 2>>, <<0, 0, 7>>}

NextSubsidy ==
    \/ \E c \in Cults : DoSubsidy(initTreasury(owner, c, 1))
    \/ \E a \in FeeAmounts : DoSubsidy(collectFee(owner, 1, a))
    \/ DoSubsidy(setFeeDistribution(owner, 0, BPS, 0))
    \/ DoSubsidy(distributeProtocolFees(owner))
    \/ \E m \in {1, MaxSubsidyMinted} : DoSubsidy(setMaxYieldPerHarvest(owner, m))
    \/ \E c \in Cults, i \in SubsidyInputs : TrySubsidy(harvestYield(owner, c, i[1], i[2], i[3]))
    \/ DoSubsidy(advanceTime)

SpecSubsidy == Init /\ [][NextSubsidy]_vars

\* floor of the square root, by its defining property
isqrt(x) == CHOOSE y \in 0..x : y * y <= x /\ x < (y + 1) * (y + 1)

\* C25: in a successful harvestYield with base = isqrt(raw * 1e18) > 0 and
\* yieldSubsidyPool > 0, the pool is drained by exactly subsidy = min(base / 5,
\* yieldSubsidyPool) and the entity is credited min(base + subsidy,
\* maxYieldPerHarvest); when base = 0 or the pool is empty the pool is
\* unchanged; yieldSubsidyPool never becomes negative.
SubsidyDrain ==
    /\ [](yieldSubsidyPool >= 0)
    /\ [][\A c \in Cults :
            (last'.op = "harvestYield" /\ last'.ok /\ last'.args[1] = c) =>
              LET raw == last'.args[2] * yieldPerFollower
                           + (last'.args[3] * yieldPerStakedMon) \div ETHER
                           + last'.args[4] * yieldAccuracyBonus
                  base == isqrt(raw * WAD)
                  fifth == base \div SubsidyDivisor
                  subsidy == IF fifth < yieldSubsidyPool THEN fifth ELSE yieldSubsidyPool
                  credit == IF base + subsidy < maxYieldPerHarvest
                            THEN base + subsidy ELSE maxYieldPerHarvest
              IN IF base > 0 /\ yieldSubsidyPool > 0
                 THEN /\ yieldSubsidyPool' = yieldSubsidyPool - subsidy
                      /\ treasuries'[c].balance = treasuries[c].balance + credit
                      /\ last'.ret = <<credit>>
                 ELSE UNCHANGED yieldSubsidyPool]_vars

\* a harvest whose bonus exceeded the pool has just emptied it, and the whole
\* of base + subsidy was credited
SubsidyDrainWitness ==
    /\ last.op = "harvestYield" /\ last.ok
    /\ last.args[4] = 7
    /\ last.events[1] = <<"YieldSubsidyApplied", last.args[1], 1>>
    /\ last.ret = <<11>>
    /\ yieldSubsidyPool = 0

\* ---- the integer square root ------------------------------------------------------
\* _sqrt on every unsigned integer of the width.
SqrtInputs == 0..MaxSqrtInput

NextSqrt == \E x \in SqrtInputs : callSqrt(x)

SpecSqrt == Init /\ [][NextSqrt]_vars

RebirthBounds ==
    /\ SumOver([c \in Cults |-> treasuries[c].totalInflow], Cults) - totalYieldMinted
          <= MaxFlow
    /\ totalYieldMinted <= MaxYieldMinted
    /\ totalDeaths <= MaxDeaths

TryRebirth(A) == last.ok /\ A /\ RebirthBounds'

DoRebirth(A) == TryRebirth(A) /\ last'.ok

NextRebirth ==
    \/ \E c \in Cults : DoRebirth(initTreasury(owner, c, 1))
    \/ \E c \in Cults : DoRebirth(harvestYield(owner, c, 1, 0, 0))
    \/ \E r \in LockReasons : DoRebirth(lockFunds(owner, 1, 1, r))
    \/ \E c \in Cults, a \in Amounts, r \in Reasons : DoRebirth(recordOutflow(owner, c, a, r))
    \/ \E c \in Cults : DoRebirth(applyTickBurn(owner, c))
    \/ DoRebirth(setDeathCooldown(owner, 0))
    \/ DoRebirth(setRebirthMinFunding(owner, 1))
    \/ \E c \in Cults, a \in Amounts : TryRebirth(rebirth(owner, c, a))

SpecRebirth == Init /\ [][NextRebirth]_vars

\* C27: a successful rebirth(id, newFunding) sets the balance to newFunding,
\* adds newFunding to totalInflow and sets alive, and leaves deathCount[id],
\* deathTimestamp[id], totalDeaths, totalOutflow, tickBurnAccumulated,
\* lockedBalance[id], lastHarvestTime[id] and every other entity's record
\* unchanged.
RebirthFrame ==
    [][\A c \in Cults, a \in Amounts :
         (last'.op = "rebirth" /\ last'.ok /\ last'.args = <<c, a>>) =>
            /\ treasuries'[c].balance = a
            /\ treasuries'[c].totalInflow = treasuries[c].totalInflow + a
            /\ treasuries'[c].alive
            /\ treasuries'[c].totalOutflow = treasuries[c].totalOutflow
            /\ treasuries'[c].tickBurnAccumulated = treasuries[c].tickBurnAccumulated
            /\ UNCHANGED <<deathCount, deathTimestamp, totalDeaths,
                           lockedBalance, lastHarvestTime>>
            /\ \A d \in Cults \ {c} : treasuries'[d] = treasuries[d]]_vars

\* an entity that had harvested, burned and locked funds before it died has
\* just been reborn, next to another entity with a record
RebirthFrameWitness ==
    /\ last.op = "rebirth" /\ last.ok /\ last.args[1] = 1
    /\ treasuries[1].balance = last.args[2]
    /\ lockedBalance[1] > 0
    /\ lastHarvestTime[1] > 0
    /\ treasuries[1].tickBurnAccumulated > 0
    /\ treasuries[1].totalOutflow > treasuries[1].tickBurnAccumulated
    /\ deathCount[1] = 1
    /\ treasuries[2].lastUpdated > 0

\* C28: rebirth(id, newFunding) by the operator succeeds if and only if
\* canRebirth(id) holds and newFunding >= rebirthMinFunding; in particular a
\* dead entity whose cooldown has elapsed can always be reborn with
\* sufficient funding.
RebirthIffCanRebirth ==
    [][\A c \in Cults, a \in Amounts :
         (last'.op = "rebirth" /\ last'.caller = owner /\ last'.args = <<c, a>>) =>
            (last'.ok <=> (canRebirth(c) /\ a >= rebirthMinFunding))]_vars

\* an entity has just been reborn once its cooldown had elapsed
RebirthIffCanRebirthWitness ==
    /\ last.op = "rebirth" /\ last.ok /\ last.caller = owner
    /\ deathCooldown > 0
    /\ now >= deathTimestamp[last.args[1]] + deathCooldown
    /\ now > GenesisTime
    /\ treasuries[last.args[1]].alive

\* C29: getAvailableBalance(id) returns a value without failing: 0 for a dead
\* entity, and otherwise balance - lockedBalance, which lies between 0 and the
\* balance.
AvailableBalanceDefined ==
    \A c \in Cults :
        /\ getAvailableBalance(c).ok
        /\ getAvailableBalance(c).value =
              IF treasuries[c].alive
              THEN treasuries[c].balance - lockedBalance[c] ELSE 0
        /\ 0 <= getAvailableBalance(c).value
        /\ getAvailableBalance(c).value <= treasuries[c].balance

\* ---- configuration and analytics ------------------------------------------------------
\* C31: in every reachable state feeToPoolBps + feeToYieldBps + feeToBurnBps =
\* 10000: setFeeDistribution with values that do not sum to exactly 10000 is
\* rejected and leaves all three unchanged.
FeeDistributionWhole ==
    /\ [](feeToPoolBps + feeToYieldBps + feeToBurnBps = BPS)
    /\ [][(/\ last'.op = "setFeeDistribution"
            /\ last'.args[1] + last'.args[2] + last'.args[3] # BPS) =>
              ~last'.ok /\ UNCHANGED <<feeToPoolBps, feeToYieldBps, feeToBurnBps>>]_vars

\* shares that sum to 9999 have just been refused after the owner had changed
\* the distribution
FeeDistributionWholeWitness ==
    /\ last.op = "setFeeDistribution" /\ ~last.ok /\ last.caller = owner
    /\ last.args = <<4000, 3000, 2999>>
    /\ feeToPoolBps = 3333 /\ feeToBurnBps = 3334

\* C32: for a live entity with tickBurnRate > 0, estimateRunway(id) = balance /
\* tickBurnRate (integer division) is the number of ticks until death: under
\* repeated applyTickBurn calls with nothing in between the entity dies on
\* exactly the estimateRunway(id)-th call, so a call kills exactly when the
\* estimate stands at 1 and lowers the estimate by 1 otherwise; for a dead
\* entity or tickBurnRate = 0 the query returns the maximum value.
RunwayExact ==
    /\ [](\A c \in Cults :
            IF treasuries[c].alive /\ tickBurnRate > 0
            THEN estimateRunway(c) = treasuries[c].balance \div tickBurnRate
            ELSE estimateRunway(c) = MaxUint)
    /\ [][\A c \in Cults :
            (/\ last'.op = "applyTickBurn" /\ last'.ok /\ last'.args = <<c>>
             /\ tickBurnRate > 0) =>
               /\ estimateRunway(c) >= 1
               /\ ~treasuries'[c].alive <=> estimateRunway(c) = 1
               /\ treasuries'[c].alive => estimateRunway(c)' = estimateRunway(c) - 1]_vars

\* ---- lifecycle invariants ------------------------------------------------------------
\* C33: in every reachable state, every entity that is not alive (dead or
\* uninitialized) has balance 0.
DeadEmpty ==
    \A c \in Cults : ~treasuries[c].alive => treasuries[c].balance = 0

\* an entity that had been funded has died by a tick burn of all it held,
\* while the other entity has no record yet
DeadEmptyWitness ==
    /\ last.op = "applyTickBurn" /\ last.ok /\ last.args[1] = 1
    /\ ~treasuries[1].alive /\ treasuries[1].totalInflow > 0
    /\ deathCount[1] = 1
    /\ treasuries[2].lastUpdated = 0 /\ ~treasuries[2].alive

\* C34: in every reachable state, every alive entity has balance > 0, that is,
\* an initialized entity is alive if and only if its balance is positive.
AliveFunded ==
    \A c \in Cults :
        /\ treasuries[c].alive => treasuries[c].balance > 0
        /\ treasuries[c].lastUpdated > 0 =>
              (treasuries[c].alive <=> treasuries[c].balance > 0)

\* C35: in every reachable state totalDeaths equals the sum over all entities
\* of deathCount[id], and each death step (by outflow, tick burn or transfer)
\* increments deathCount of exactly one entity by exactly 1.
DeathsCounted ==
    /\ [](totalDeaths = SumOver(deathCount, Cults))
    /\ [][\A c \in Cults :
            (treasuries[c].alive /\ ~treasuries'[c].alive) =>
               /\ deathCount'[c] = deathCount[c] + 1
               /\ \A d \in Cults \ {c} : deathCount'[d] = deathCount[d]
               /\ totalDeaths' = totalDeaths + 1]_vars

\* both entities have died, one of them by a transfer of all it held to the
\* other
DeathsCountedWitness ==
    /\ deathCount[1] = 1 /\ deathCount[2] = 1
    /\ totalDeaths = 2
    /\ \E c \in Cults : treasuries[c].totalOutflow > 0 /\ treasuries[3 - c].totalInflow > 1

\* ---- pools ---------------------------------------------------------------------------
\* C36: value drained from yieldSubsidyPool is never lost: in every successful
\* harvestYield call the decrease of yieldSubsidyPool is at most the increase
\* of the harvesting entity's balance in that same call, also when the
\* per-harvest cap clamps the yield.
SubsidyNotLost ==
    [][\A c \in Cults :
         (last'.op = "harvestYield" /\ last'.ok /\ last'.args[1] = c) =>
            yieldSubsidyPool - yieldSubsidyPool'
              <= treasuries'[c].balance - treasuries[c].balance]_vars

\* C37: the reward pools are funded only by distributed fees: in every
\* reachable state undistributedFees <= totalProtocolFees and
\* prophecyRewardPool + totalProphecyRewards + yieldSubsidyPool <=
\* totalProtocolFees - undistributedFees.
PoolsFunded ==
    /\ undistributedFees <= totalProtocolFees
    /\ prophecyRewardPool + totalProphecyRewards + yieldSubsidyPool
         <= totalProtocolFees - undistributedFees

\* a reward has been paid from the prophecy pool and a harvest has just drawn
\* the subsidy pool empty, both funded by one distribution of fees
PoolsFundedWitness ==
    /\ last.op = "harvestYield" /\ last.ok
    /\ last.events[1][1] = "YieldSubsidyApplied" /\ last.events[1][3] > 0
    /\ totalProphecyRewards > 0
    /\ yieldSubsidyPool = 0
    /\ totalProtocolFees > 0 /\ undistributedFees = 0

\* ---- death and rebirth -----------------------------------------------------------------
\* C38: deaths and rebirths of an entity strictly alternate and the rebirth
\* cooldown is measured from the most recent death: deathTimestamp[id] always
\* equals the time of the entity's latest death, so after an entity is reborn
\* and dies again, rebirth is rejected until now >= (time of the second
\* death) + deathCooldown.
DeathsAlternate ==
    /\ [](\A c \in Cults :
            /\ deathCount[c] = 0 <=> deathTimestamp[c] = 0
            /\ (~treasuries[c].alive /\ treasuries[c].lastUpdated > 0) =>
                  deathTimestamp[c] = treasuries[c].lastUpdated)
    /\ [][\A c \in Cults :
            /\ deathCount'[c] # deathCount[c] =>
                  (treasuries[c].alive /\ ~treasuries'[c].alive)
            /\ IF treasuries[c].alive /\ ~treasuries'[c].alive
               THEN deathTimestamp'[c] = now /\ deathCount'[c] = deathCount[c] + 1
               ELSE deathTimestamp'[c] = deathTimestamp[c]
            /\ (~treasuries[c].alive /\ treasuries'[c].alive /\ treasuries[c].lastUpdated > 0) =>
                  (last'.op = "rebirth" /\ now >= deathTimestamp[c] + deathCooldown)
            /\ (/\ last'.op = "rebirth" /\ last'.args[1] = c
                /\ now < deathTimestamp[c] + deathCooldown) => ~last'.ok]_vars

\* an entity that was reborn and has died a second time, later than the first,
\* has just been refused a rebirth because the cooldown of the second death
\* has not passed, although that of the first has
DeathsAlternateWitness ==
    /\ last.op = "rebirth" /\ ~last.ok /\ last.caller = owner
    /\ deathCount[last.args[1]] = 2
    /\ ~treasuries[last.args[1]].alive
    /\ deathTimestamp[last.args[1]] > GenesisTime
    /\ last.args[2] >= rebirthMinFunding
    /\ now < deathTimestamp[last.args[1]] + deathCooldown
    /\ now >= GenesisTime + deathCooldown

\* ---- tick burns until death ------------------------------------------------------------
\* Entities that are initialised with balances from 0 to MaxBurnBalance and
\* then receive tick burns only, under burn rates that the owner may change,
\* 0 included.  Tick burns of a live entity keep coming.
MaxBurnBalance == 5

BurnRates == {0, 1, 2, 3}

Succeeds(A) == A /\ last'.ok

NextBurn ==
    \/ \E c \in Cults, a \in 0..MaxBurnBalance : Succeeds(initTreasury(owner, c, a))
    \/ \E r \in BurnRates : Succeeds(setTickBurnRate(owner, r))
    \/ \E c \in Cults : Succeeds(applyTickBurn(owner, c))

SpecBurn ==
    /\ Init /\ [][NextBurn]_vars
    /\ \A c \in Cults : WF_vars(Succeeds(applyTickBurn(owner, c)))

Bystander == CHOOSE e \in Entities : e \notin Cults

LocalBounds ==
    /\ SumOver([c \in Entities |-> treasuries[c].totalInflow], Entities) - totalYieldMinted
          <= MaxFlow
    /\ totalYieldMinted <= MaxYieldMinted
    /\ totalDeaths < MaxDeaths
    /\ SumOver(prophecyAccuracy, Entities) <= MaxProphecies

DoLocal(A) == last.ok /\ A /\ LocalBounds' /\ last'.ok

NextLocal ==
    \/ DoLocal(initTreasury(owner, Bystander, 1))
    \/ DoLocal(lockFunds(owner, Bystander, 1, "raid-escrow"))
    \/ DoLocal(grantBalanceView(owner, Bystander, 1))
    \/ \E c \in Cults : DoLocal(initTreasury(owner, c, 1))
    \/ DoLocal(recordInflow(owner, 1, 1, "raid"))
    \/ DoLocal(recordOutflow(owner, 1, 1, "raid"))
    \/ DoLocal(applyTickBurn(owner, 1))
    \/ DoLocal(rebirth(owner, 1, 2))
    \/ DoLocal(lockFunds(owner, 1, 1, "raid-escrow"))
    \/ DoLocal(releaseFunds(owner, 1, 1))
    \/ \E f \in Cults, t \in Cults : DoLocal(transferFunds(owner, f, t, 1, "DONATION"))
    \/ DoLocal(harvestYield(owner, 1, 1, 0, 0))
    \/ DoLocal(claimProphecyReward(owner, 1))
    \/ DoLocal(grantBalanceView(owner, 1, 2))
    \/ DoLocal(revokeBalanceView(owner, 1, 2))
    \/ DoLocal(setDeathCooldown(owner, 0))

SpecLocal == Init /\ [][NextLocal]_vars

\* the treasury record and the per-entity maps of entity c
EntityData(c) ==
    <<treasuries[c], deathTimestamp[c], deathCount[c], raidRevenue[c], stakingRevenue[c],
      lastHarvestTime[c], totalYieldEarned[c], prophecyAccuracy[c], lockedBalance[c],
      balanceViewPermissions[c]>>

LocalOps ==
    {"initTreasury", "recordInflow", "recordOutflow", "applyTickBurn", "rebirth",
     "lockFunds", "releaseFunds", "harvestYield", "claimProphecyReward",
     "grantBalanceView", "revokeBalanceView"}

\* C40: operations are entity-local: every entity-scoped operation other than
\* transferFunds changes the treasury record and per-entity maps of at most
\* its target id, and transferFunds changes only those of fromId and toId;
\* visibility grants and revokes change no treasury record, lock, pool or
\* counter.
EntityLocal ==
    [][/\ \A c \in Entities :
            (last'.op \in LocalOps /\ last'.args[1] # c) => EntityData(c)' = EntityData(c)
       /\ \A c \in Entities :
            (last'.op = "transferFunds" /\ last'.args[1] # c /\ last'.args[2] # c) =>
               EntityData(c)' = EntityData(c)
       /\ last'.op \in {"grantBalanceView", "revokeBalanceView"} =>
            UNCHANGED <<treasuries, lockedBalance, pools, fees, deaths, revenue, yields,
                        prophecy, totalBurned, config>>]_vars

\* a transfer between entities 1 and 2 has just killed its source while
\* entity 3 holds a record, a lock and a grant
EntityLocalWitness ==
    /\ last.op = "transferFunds" /\ last.ok
    /\ ~treasuries[last.args[1]].alive
    /\ treasuries[Bystander].alive
    /\ lockedBalance[Bystander] > 0
    /\ balanceViewPermissions[Bystander][1]

====
